---- MODULE Spec2Model ----
(***************************************************************************)
(* A model of the `str` interpreter: lexer (src/src/lexer.rs), parser      *)
(* (src/src/parser.rs), values and types (src/src/value.rs) and the        *)
(* tree-walking evaluator with its built-in registry (src/src/run.rs),     *)
(* driven by the read-eval loop of src/src/main.rs.                        *)
(*                                                                         *)
(* Text and String values are TLA+ strings and a character is a string of  *)
(* length one; every character of the model is a single byte, so byte      *)
(* offsets and character positions coincide.  An Int is a TLA+ integer;    *)
(* all Ints of the model stay far inside the i64 range.  A Float is a      *)
(* reduced fraction <<n, d>> with d > 0; <<1, 0>>, <<-1, 0>> and <<0, 0>>  *)
(* stand for +inf, -inf and NaN.  The inputs are dyadic fractions, on      *)
(* which f64 addition, subtraction and multiplication are exact.           *)
(***************************************************************************)
EXTENDS Integers, Sequences, FiniteSets, TLC

(***************************************************************************)
(* Bounds of the model.                                                    *)
(***************************************************************************)
MaxLines == 2
MaxStack == 4
MaxDefs == 2

(***************************************************************************)
(* Generic helpers on sequences.                                           *)
(***************************************************************************)
RECURSIVE Reverse(_)
Reverse(s) == IF s = <<>> THEN <<>> ELSE Append(Reverse(Tail(s)), Head(s))

\* the character of a string at the 1-based position i
CharAt(s, i) == SubSeq(s, i, i)

\* str.chars().rev().collect()
RECURSIVE StrReverse(_)
StrReverse(s) == IF Len(s) = 0 THEN "" ELSE StrReverse(Tail(s)) \o Head(s)

Abs(n) == IF n < 0 THEN -n ELSE n
Max(a, b) == IF a >= b THEN a ELSE b

(***************************************************************************)
(* value.rs: Value and Type.                                               *)
(***************************************************************************)
RECURSIVE Gcd(_, _)
Gcd(a, b) == IF b = 0 THEN a ELSE Gcd(b, a % b)

\* a fraction n/d (d # 0) in lowest terms with a positive denominator
Frac(n, d) ==
    LET g == Gcd(Abs(n), Abs(d))
        s == IF d < 0 THEN -1 ELSE 1
    IN  <<(s * n) \div g, (s * d) \div g>>

ValueString(s) == [k |-> "String", v |-> s]
ValueChar(c) == [k |-> "Char", v |-> c]
ValueInt(n) == [k |-> "Int", v |-> n]
ValueFloat(f) == [k |-> "Float", v |-> f]
ValueBoolean(b) == [k |-> "Boolean", v |-> b]

typ(value) == value.k

Types == {"Any", "String", "Char", "Int", "Float", "Boolean"}

\* impl PartialEq for Type: Any equals everything, in both positions
TypeEq(a, b) == a = "Any" \/ b = "Any" \/ a = b

\* Vec<Type> equality, element by element with TypeEq
TypesEq(xs, ys) ==
    /\ Len(xs) = Len(ys)
    /\ \A i \in 1..Len(xs) : TypeEq(xs[i], ys[i])

(***************************************************************************)
(* f64 arithmetic on fractions.                                            *)
(***************************************************************************)
\* inf is <<1, 0>>, -inf is <<-1, 0>>, NaN is <<0, 0>>
FNaN == <<0, 0>>
IsNaN(x) == x = FNaN
IsInf(x) == x[2] = 0 /\ x[1] # 0
Sign(n) == IF n > 0 THEN 1 ELSE IF n < 0 THEN -1 ELSE 0

IntAsFloat(n) == <<n, 1>>

FNeg(x) == <<-x[1], x[2]>>

FAdd(x, y) ==
    IF IsNaN(x) \/ IsNaN(y) THEN FNaN
    ELSE IF IsInf(x) /\ IsInf(y) THEN (IF x = y THEN x ELSE FNaN)
    ELSE IF IsInf(x) THEN x
    ELSE IF IsInf(y) THEN y
    ELSE Frac(x[1] * y[2] + y[1] * x[2], x[2] * y[2])

FSub(x, y) == FAdd(x, FNeg(y))

FMul(x, y) ==
    IF IsNaN(x) \/ IsNaN(y) THEN FNaN
    ELSE IF IsInf(x) \/ IsInf(y)
         THEN (IF x[1] = 0 \/ y[1] = 0 THEN FNaN ELSE <<Sign(x[1]) * Sign(y[1]), 0>>)
    ELSE Frac(x[1] * y[1], x[2] * y[2])

FDiv(x, y) ==
    IF IsNaN(x) \/ IsNaN(y) THEN FNaN
    ELSE IF IsInf(x) THEN (IF IsInf(y) THEN FNaN
                           ELSE <<x[1] * (IF y[1] < 0 THEN -1 ELSE 1), 0>>)
    ELSE IF IsInf(y) THEN <<0, 1>>
    ELSE IF y[1] = 0 THEN (IF x[1] = 0 THEN FNaN ELSE <<Sign(x[1]), 0>>)
    ELSE Frac(x[1] * y[2], x[2] * y[1])

\* truncation toward zero of a finite fraction
FTrunc(x) == Sign(x[1]) * (Abs(x[1]) \div x[2])

\* the % of f64 (fmod): the result has the sign of the dividend
FRem(x, y) ==
    IF IsNaN(x) \/ IsNaN(y) \/ IsInf(x) THEN FNaN
    ELSE IF IsInf(y) THEN x
    ELSE IF y[1] = 0 THEN FNaN
    ELSE FSub(x, FMul(IntAsFloat(FTrunc(FDiv(x, y))), y))

FLt(x, y) ==
    IF IsNaN(x) \/ IsNaN(y) THEN FALSE
    ELSE IF IsInf(x) \/ IsInf(y)
         THEN (IF IsInf(x) /\ IsInf(y) THEN x[1] < y[1]
               ELSE IF IsInf(x) THEN x[1] < 0 ELSE y[1] > 0)
    ELSE x[1] * y[2] < y[1] * x[2]

FEq(x, y) == ~IsNaN(x) /\ ~IsNaN(y) /\ x = y
FLe(x, y) == FLt(x, y) \/ FEq(x, y)

\* the % of i64: truncated remainder, the result has the sign of the dividend
IRem(a, b) == Sign(a) * (Abs(a) % Abs(b))

\* #[derive(PartialEq)] for Value
ValueEq(a, b) ==
    /\ a.k = b.k
    /\ IF a.k = "Float" THEN FEq(a.v, b.v) ELSE a.v = b.v

(***************************************************************************)
(* Text helpers (the str and String methods the natives call).             *)
(***************************************************************************)
Digits == "0123456789"
IsDigit(c) == \E i \in 1..Len(Digits) : CharAt(Digits, i) = c
DigitValue(c) == (CHOOSE i \in 1..Len(Digits) : CharAt(Digits, i) = c) - 1

RECURSIVE NatToString(_)
NatToString(n) ==
    IF n < 10 THEN CharAt(Digits, n + 1)
    ELSE NatToString(n \div 10) \o CharAt(Digits, (n % 10) + 1)

\* Display for i64
IntToString(n) == IF n < 0 THEN "-" \o NatToString(-n) ELSE NatToString(n)

\* the digits of r/d (0 <= r < d) after the decimal point, at most `left` of them
RECURSIVE FracDigits(_, _, _)
FracDigits(r, d, left) ==
    IF r = 0 \/ left = 0 THEN ""
    ELSE CharAt(Digits, ((r * 10) \div d) + 1) \o FracDigits((r * 10) % d, d, left - 1)

\* the number of significant decimal digits an f64 carries
F64Digits == 17

\* Display for f64
FloatToString(x) ==
    IF IsNaN(x) THEN "NaN"
    ELSE IF IsInf(x) THEN (IF x[1] < 0 THEN "-inf" ELSE "inf")
    ELSE LET whole == Abs(x[1]) \div x[2]
             frac == FracDigits(Abs(x[1]) % x[2], x[2], F64Digits)
         IN  (IF x[1] < 0 THEN "-" ELSE "") \o NatToString(whole)
             \o (IF frac = "" THEN "" ELSE "." \o frac)

\* impl Display for Value
ValueToString(value) ==
    CASE value.k = "String" -> value.v
      [] value.k = "Char" -> value.v
      [] value.k = "Int" -> IntToString(value.v)
      [] value.k = "Float" -> FloatToString(value.v)
      [] value.k = "Boolean" -> IF value.v THEN "true" ELSE "false"

\* str::repeat
RECURSIVE StrRepeat(_, _)
StrRepeat(s, n) == IF n <= 0 THEN "" ELSE s \o StrRepeat(s, n - 1)

\* whether sub occurs in s at the 0-based offset i
MatchAt(s, sub, i) ==
    /\ i + Len(sub) <= Len(s)
    /\ SubSeq(s, i + 1, i + Len(sub)) = sub

\* str::find: the least 0-based offset of sub in s, or -1 for None
StrFind(s, sub) ==
    IF \E i \in 0..Len(s) : MatchAt(s, sub, i)
    THEN CHOOSE i \in 0..Len(s) :
            MatchAt(s, sub, i) /\ \A j \in 0..(i - 1) : ~MatchAt(s, sub, j)
    ELSE -1

\* str::split with a non-empty pattern
RECURSIVE StrSplitBy(_, _)
StrSplitBy(s, pat) ==
    LET i == StrFind(s, pat)
    IN  IF i < 0 THEN <<s>>
        ELSE <<SubSeq(s, 1, i)>> \o StrSplitBy(SubSeq(s, i + Len(pat) + 1, Len(s)), pat)

\* str::split: an empty pattern matches at every character boundary
StrSplit(s, pat) ==
    IF pat = ""
    THEN <<"">> \o [i \in 1..Len(s) |-> CharAt(s, i)] \o <<"">>
    ELSE StrSplitBy(s, pat)

\* [String]::join
RECURSIVE StrJoin(_, _)
StrJoin(strings, sep) ==
    IF strings = <<>> THEN ""
    ELSE IF Len(strings) = 1 THEN strings[1]
    ELSE strings[1] \o sep \o StrJoin(Tail(strings), sep)

(***************************************************************************)
(* run.rs: the Program [stack, vars, macros] and the result of a call.  A   *)
(* result carries the program as the call left it and res: "Ok", the       *)
(* message of the Error returned (without its arguments; the message of a  *)
(* dispatch without match is whole), or "Panic: " and the panic's message  *)
(* when the call aborts the process.  The top of the stack is the last     *)
(* element.                                                                *)
(***************************************************************************)
NoVars == [x \in {} |-> 0]

\* HashMap::insert on the variable table
VarsInsert(vars, id, value) ==
    [x \in (DOMAIN vars) \cup {id} |-> IF x = id THEN value ELSE vars[x]]

\* a read that leaves the binding in place (HashMap::get for HashMap::remove)
VarsRemoveKeeps(vars, id) == vars

\* HashMap::remove on the variable table
VarsRemove(vars, id) == [x \in (DOMAIN vars) \ {id} |-> vars[x]]

ProgramOf(stack, vars, macros) == [stack |-> stack, vars |-> vars, macros |-> macros]

Result(stack, vars, macros, res) ==
    [stack |-> stack, vars |-> vars, macros |-> macros, res |-> res]
Ok(program, stack) == Result(stack, program.vars, program.macros, "Ok")
Panic(program, msg) ==
    Result(program.stack, program.vars, program.macros, "Panic: " \o msg)

IsPanic(res) == Len(res) >= 5 /\ SubSeq(res, 1, 5) = "Panic"

\* the stack without its n top values
Below(stack, n) == SubSeq(stack, 1, Len(stack) - n)
\* the n-th value from the top, 1 being the top
Top(stack, n) == stack[Len(stack) + 1 - n]

(***************************************************************************)
(* run.rs: the native operations.  pop().unwrap() on an empty stack and    *)
(* the `type checking error` arms panic.                                   *)
(***************************************************************************)
_stack_len(program) ==
    Ok(program, Append(program.stack, ValueInt(Len(program.stack))))

_len(program) ==
    LET s == program.stack IN
    IF Len(s) < 1 THEN Panic(program, "unwrap on None")
    ELSE IF Top(s, 1).k = "String"
         THEN Ok(program, Append(Below(s, 1), ValueInt(Len(Top(s, 1).v))))
         ELSE Panic(program, "type checking error!!!")

_drop(program) ==
    LET s == program.stack IN
    IF Len(s) < 1 THEN Ok(program, s) ELSE Ok(program, Below(s, 1))

_copy(program) ==
    LET s == program.stack IN
    IF Len(s) < 1 THEN Panic(program, "unwrap on None") ELSE Ok(program, Append(s, Top(s, 1)))

_swap(program) ==
    LET s == program.stack IN
    IF Len(s) < 2 THEN Panic(program, "unwrap on None")
    ELSE Ok(program, Below(s, 2) \o <<Top(s, 1), Top(s, 2)>>)

_overCopiesTop(program) ==
    LET s == program.stack
    IN  IF Len(s) < 2 THEN Panic(program, "unwrap on None")
        ELSE Ok(program, Below(s, 2) \o <<Top(s, 2), Top(s, 1), Top(s, 1)>>)

_over(program) ==
    LET s == program.stack IN
    IF Len(s) < 2 THEN Panic(program, "unwrap on None")
    ELSE Ok(program, Below(s, 2) \o <<Top(s, 2), Top(s, 1), Top(s, 2)>>)

\* an _add that takes its operands in the order they are popped
_addSwapped(program) ==
    LET s == program.stack IN
    IF Len(s) < 2 THEN Panic(program, "unwrap on None")
    ELSE LET a == Top(s, 1)
             b == Top(s, 2)
             rest == Below(s, 2)
         IN  CASE a.k = "Int" /\ b.k = "Int" ->
                    Ok(program, Append(rest, ValueInt(a.v + b.v)))
               [] a.k \in {"Int", "Float"} /\ b.k \in {"Int", "Float"} ->
                    Ok(program, Append(rest, ValueFloat(FAdd(
                        IF a.k = "Int" THEN IntAsFloat(a.v) ELSE a.v,
                        IF b.k = "Int" THEN IntAsFloat(b.v) ELSE b.v))))
               [] a.k = "String" /\ b.k \in {"String", "Char"} ->
                    Ok(program, Append(rest, ValueString(a.v \o b.v)))
               [] OTHER -> Panic(program, "type checking error!!!")

_add(program) ==
    LET s == program.stack IN
    IF Len(s) < 2 THEN Panic(program, "unwrap on None")
    ELSE LET a == Top(s, 2)
             b == Top(s, 1)
             rest == Below(s, 2)
         IN  CASE a.k = "Int" /\ b.k = "Int" ->
                    Ok(program, Append(rest, ValueInt(a.v + b.v)))
               [] a.k = "Float" /\ b.k = "Float" ->
                    Ok(program, Append(rest, ValueFloat(FAdd(a.v, b.v))))
               [] a.k = "Int" /\ b.k = "Float" ->
                    Ok(program, Append(rest, ValueFloat(FAdd(IntAsFloat(a.v), b.v))))
               [] a.k = "Float" /\ b.k = "Int" ->
                    Ok(program, Append(rest, ValueFloat(FAdd(IntAsFloat(b.v), a.v))))
               [] a.k = "String" /\ b.k = "String" ->
                    Ok(program, Append(rest, ValueString(a.v \o b.v)))
               [] a.k = "String" /\ b.k = "Char" ->
                    Ok(program, Append(rest, ValueString(a.v \o b.v)))
               [] OTHER -> Panic(program, "type checking error!!!")

_sub(program) ==
    LET s == program.stack IN
    IF Len(s) < 2 THEN Panic(program, "unwrap on None")
    ELSE LET a == Top(s, 2)
             b == Top(s, 1)
             rest == Below(s, 2)
         IN  CASE a.k = "Int" /\ b.k = "Int" ->
                    Ok(program, Append(rest, ValueInt(a.v - b.v)))
               [] a.k = "Float" /\ b.k = "Float" ->
                    Ok(program, Append(rest, ValueFloat(FSub(a.v, b.v))))
               [] a.k = "Int" /\ b.k = "Float" ->
                    Ok(program, Append(rest, ValueFloat(FSub(IntAsFloat(a.v), b.v))))
               [] a.k = "Float" /\ b.k = "Int" ->
                    Ok(program, Append(rest, ValueFloat(FSub(a.v, IntAsFloat(b.v)))))
               [] OTHER -> Panic(program, "type checking error!!!")

_mult(program) ==
    LET s == program.stack IN
    IF Len(s) < 2 THEN Panic(program, "unwrap on None")
    ELSE LET a == Top(s, 2)
             b == Top(s, 1)
             rest == Below(s, 2)
         IN  CASE a.k = "Int" /\ b.k = "Int" ->
                    Ok(program, Append(rest, ValueInt(a.v * b.v)))
               [] a.k = "Float" /\ b.k = "Float" ->
                    Ok(program, Append(rest, ValueFloat(FMul(a.v, b.v))))
               [] a.k = "Int" /\ b.k = "Float" ->
                    Ok(program, Append(rest, ValueFloat(FMul(IntAsFloat(a.v), b.v))))
               [] a.k = "Float" /\ b.k = "Int" ->
                    Ok(program, Append(rest, ValueFloat(FMul(a.v, IntAsFloat(b.v)))))
               [] a.k = "String" /\ b.k = "Int" ->
                    Ok(program, Append(rest, ValueString(StrRepeat(a.v, Max(b.v, 0)))))
               [] a.k = "Char" /\ b.k = "Int" ->
                    Ok(program, Append(rest, ValueString(StrRepeat(a.v, Max(b.v, 0)))))
               [] OTHER -> Panic(program, "type checking error!!!")

_div(program) ==
    LET s == program.stack IN
    IF Len(s) < 2 THEN Panic(program, "unwrap on None")
    ELSE LET a == Top(s, 2)
             b == Top(s, 1)
             rest == Below(s, 2)
         IN  CASE a.k = "Int" /\ b.k = "Int" ->
                    Ok(program, Append(rest,
                        ValueFloat(FDiv(IntAsFloat(a.v), IntAsFloat(b.v)))))
               [] a.k = "Float" /\ b.k = "Float" ->
                    Ok(program, Append(rest, ValueFloat(FDiv(a.v, b.v))))
               [] a.k = "Int" /\ b.k = "Float" ->
                    Ok(program, Append(rest, ValueFloat(FDiv(IntAsFloat(a.v), b.v))))
               [] a.k = "Float" /\ b.k = "Int" ->
                    Ok(program, Append(rest, ValueFloat(FDiv(a.v, IntAsFloat(b.v)))))
               [] OTHER -> Panic(program, "type checking error!!!")

\* the i64 % panics on a zero divisor
_module(program) ==
    LET s == program.stack IN
    IF Len(s) < 2 THEN Panic(program, "unwrap on None")
    ELSE LET a == Top(s, 2)
             b == Top(s, 1)
             rest == Below(s, 2)
         IN  CASE a.k = "Int" /\ b.k = "Int" ->
                    IF b.v = 0 THEN Panic(program, "remainder by zero")
                    ELSE Ok(program, Append(rest, ValueInt(IRem(a.v, b.v))))
               [] a.k = "Float" /\ b.k = "Float" ->
                    Ok(program, Append(rest, ValueFloat(FRem(a.v, b.v))))
               [] a.k = "Int" /\ b.k = "Float" ->
                    Ok(program, Append(rest, ValueFloat(FRem(IntAsFloat(a.v), b.v))))
               [] a.k = "Float" /\ b.k = "Int" ->
                    Ok(program, Append(rest, ValueFloat(FRem(a.v, IntAsFloat(b.v)))))
               [] OTHER -> Panic(program, "type checking error!!!")

_and(program) ==
    LET s == program.stack IN
    IF Len(s) < 2 THEN Panic(program, "unwrap on None")
    ELSE IF Top(s, 2).k = "Boolean" /\ Top(s, 1).k = "Boolean"
         THEN Ok(program, Append(Below(s, 2), ValueBoolean(Top(s, 2).v /\ Top(s, 1).v)))
         ELSE Panic(program, "type checking error!!!")

_or(program) ==
    LET s == program.stack IN
    IF Len(s) < 2 THEN Panic(program, "unwrap on None")
    ELSE IF Top(s, 2).k = "Boolean" /\ Top(s, 1).k = "Boolean"
         THEN Ok(program, Append(Below(s, 2), ValueBoolean(Top(s, 2).v \/ Top(s, 1).v)))
         ELSE Panic(program, "type checking error!!!")

_not(program) ==
    LET s == program.stack IN
    IF Len(s) < 1 THEN Panic(program, "unwrap on None")
    ELSE IF Top(s, 1).k = "Boolean"
         THEN Ok(program, Append(Below(s, 1), ValueBoolean(~Top(s, 1).v)))
         ELSE Panic(program, "type checking error!!!")

_eq(program) ==
    LET s == program.stack IN
    IF Len(s) < 2 THEN Panic(program, "unwrap on None")
    ELSE Ok(program, Append(Below(s, 2), ValueBoolean(ValueEq(Top(s, 2), Top(s, 1)))))

_ne(program) ==
    LET s == program.stack IN
    IF Len(s) < 2 THEN Panic(program, "unwrap on None")
    ELSE Ok(program, Append(Below(s, 2), ValueBoolean(~ValueEq(Top(s, 2), Top(s, 1)))))

\* the operands of a comparison taken in the other order: the top of the stack
\* on the left
NumPairSwapped(a, b) ==
    CASE a.k = "Int" /\ b.k = "Int" -> <<IntAsFloat(b.v), IntAsFloat(a.v)>>
      [] a.k = "Float" /\ b.k = "Float" -> <<b.v, a.v>>
      [] a.k = "Int" /\ b.k = "Float" -> <<b.v, IntAsFloat(a.v)>>
      [] a.k = "Float" /\ b.k = "Int" -> <<IntAsFloat(b.v), a.v>>
      [] OTHER -> <<>>

\* the operands of a numeric comparison as f64 pairs, or <<>> on a type error;
\* an Int compared with an Int is compared as i64
NumPair(a, b) ==
    CASE a.k = "Int" /\ b.k = "Int" -> <<IntAsFloat(a.v), IntAsFloat(b.v)>>
      [] a.k = "Float" /\ b.k = "Float" -> <<a.v, b.v>>
      [] a.k = "Int" /\ b.k = "Float" -> <<IntAsFloat(a.v), b.v>>
      [] a.k = "Float" /\ b.k = "Int" -> <<a.v, IntAsFloat(b.v)>>
      [] OTHER -> <<>>

_lt(program) ==
    LET s == program.stack IN
    IF Len(s) < 2 THEN Panic(program, "unwrap on None")
    ELSE LET p == NumPair(Top(s, 2), Top(s, 1)) IN
         IF p = <<>> THEN Panic(program, "type checking error!!!")
         ELSE Ok(program, Append(Below(s, 2), ValueBoolean(FLt(p[1], p[2]))))

_gt(program) ==
    LET s == program.stack IN
    IF Len(s) < 2 THEN Panic(program, "unwrap on None")
    ELSE LET p == NumPair(Top(s, 2), Top(s, 1)) IN
         IF p = <<>> THEN Panic(program, "type checking error!!!")
         ELSE Ok(program, Append(Below(s, 2), ValueBoolean(FLt(p[2], p[1]))))

_le(program) ==
    LET s == program.stack IN
    IF Len(s) < 2 THEN Panic(program, "unwrap on None")
    ELSE LET p == NumPair(Top(s, 2), Top(s, 1)) IN
         IF p = <<>> THEN Panic(program, "type checking error!!!")
         ELSE Ok(program, Append(Below(s, 2), ValueBoolean(FLe(p[1], p[2]))))

_ge(program) ==
    LET s == program.stack IN
    IF Len(s) < 2 THEN Panic(program, "unwrap on None")
    ELSE LET p == NumPair(Top(s, 2), Top(s, 1)) IN
         IF p = <<>> THEN Panic(program, "type checking error!!!")
         ELSE Ok(program, Append(Below(s, 2), ValueBoolean(FLe(p[2], p[1]))))

\* the index arithmetic of _index, _index_range and _remove, for len > 0:
\*   if idx < 0 { len - idx.abs() as usize % len } else { idx.abs() as usize % len }
WrapIndex(len, idx) == IF idx < 0 THEN len - (Abs(idx) % len) ELSE Abs(idx) % len

\* % on an empty string divides by zero; a slice that ends past the string panics
_index(program) ==
    LET s == program.stack IN
    IF Len(s) < 2 THEN Panic(program, "unwrap on None")
    ELSE LET a == Top(s, 2)
             b == Top(s, 1)
         IN  IF a.k = "String" /\ b.k = "Int"
             THEN IF Len(a.v) = 0 THEN Panic(program, "remainder by zero")
                  ELSE LET idx == WrapIndex(Len(a.v), b.v) IN
                       IF idx + 1 > Len(a.v) THEN Panic(program, "index out of bounds")
                       ELSE Ok(program, Append(Below(s, 2), ValueChar(CharAt(a.v, idx + 1))))
             ELSE Panic(program, "type checking error!!!")

_index_range(program) ==
    LET s == program.stack IN
    IF Len(s) < 3 THEN Panic(program, "unwrap on None")
    ELSE LET a == Top(s, 3)
             b == Top(s, 2)
             c == Top(s, 1)
         IN  IF a.k = "String" /\ b.k = "Int" /\ c.k = "Int"
             THEN IF Len(a.v) = 0 THEN Panic(program, "remainder by zero")
                  ELSE LET start == WrapIndex(Len(a.v), b.v)
                           end == WrapIndex(Len(a.v), c.v)
                       IN  IF start > end \/ end > Len(a.v) THEN Panic(program, "index out of bounds")
                           ELSE Ok(program, Append(Below(s, 3),
                                    ValueString(SubSeq(a.v, start + 1, end))))
             ELSE Panic(program, "type checking error!!!")

_rev(program) ==
    LET s == program.stack IN
    IF Len(s) < 1 THEN Panic(program, "unwrap on None")
    ELSE IF Top(s, 1).k = "String"
         THEN Ok(program, Append(Below(s, 1), ValueString(StrReverse(Top(s, 1).v))))
         ELSE Panic(program, "type checking error!!!")

_pos(program) ==
    LET s == program.stack IN
    IF Len(s) < 2 THEN Panic(program, "unwrap on None")
    ELSE LET a == Top(s, 2)
             b == Top(s, 1)
             rest == Below(s, 2)
         IN  IF a.k = "String" /\ b.k \in {"Char", "String"}
             THEN LET index == StrFind(a.v, b.v) IN
                  IF index >= 0
                  THEN Ok(program, rest \o <<ValueInt(index), ValueBoolean(TRUE)>>)
                  ELSE Ok(program, Append(rest, ValueBoolean(FALSE)))
             ELSE Panic(program, "type checking error!!!")

\* String::remove panics when idx is not inside the string
_remove(program) ==
    LET s == program.stack IN
    IF Len(s) < 2 THEN Panic(program, "unwrap on None")
    ELSE LET a == Top(s, 2)
             b == Top(s, 1)
         IN  IF a.k = "String" /\ b.k = "Int"
             THEN IF Len(a.v) = 0 THEN Panic(program, "remainder by zero")
                  ELSE LET idx == WrapIndex(Len(a.v), b.v) IN
                       IF idx >= Len(a.v) THEN Panic(program, "index out of bounds")
                       ELSE Ok(program, Append(Below(s, 2), ValueChar(CharAt(a.v, idx + 1))))
             ELSE Panic(program, "type checking error!!!")

_count(program) ==
    LET s == program.stack IN
    IF Len(s) < 2 THEN Panic(program, "unwrap on None")
    ELSE LET a == Top(s, 2)
             b == Top(s, 1)
             rest == Below(s, 2)
         IN  CASE a.k = "String" /\ b.k = "Char" ->
                    Ok(program, Append(rest,
                        ValueInt(Cardinality({i \in 1..Len(a.v) : CharAt(a.v, i) = b.v}))))
               [] a.k = "String" /\ b.k = "String" ->
                    Ok(program, Append(rest,
                        ValueInt(Cardinality({idx \in 0..(Len(a.v) - 1) :
                                                MatchAt(a.v, b.v, idx)}))))
               [] OTHER -> Panic(program, "type checking error!!!")

\* a _split that leaves out the empty parts
_splitSkipsEmpty(program) ==
    LET s == program.stack IN
    IF Len(s) < 2 THEN Panic(program, "unwrap on None")
    ELSE LET a == Top(s, 2)
             b == Top(s, 1)
             rest == Below(s, 2)
         IN  IF a.k = "String" /\ b.k \in {"Char", "String"}
             THEN LET parts == SelectSeq(StrSplit(a.v, b.v), LAMBDA part : part # "") IN
                  Ok(program, rest \o [i \in 1..Len(parts) |-> ValueString(parts[i])]
                                   \o <<ValueInt(Len(parts))>>)
             ELSE Panic(program, "type checking error!!!")

_split(program) ==
    LET s == program.stack IN
    IF Len(s) < 2 THEN Panic(program, "unwrap on None")
    ELSE LET a == Top(s, 2)
             b == Top(s, 1)
             rest == Below(s, 2)
         IN  IF a.k = "String" /\ b.k \in {"Char", "String"}
             THEN LET parts == StrSplit(a.v, b.v) IN
                  Ok(program, rest \o [i \in 1..Len(parts) |-> ValueString(parts[i])]
                                   \o <<ValueInt(Len(parts))>>)
             ELSE Panic(program, "type checking error!!!")

\* a _join that keeps the order in which the values are popped
_joinTopDown(program) ==
    LET s == program.stack IN
    IF Len(s) < 1 THEN Panic(program, "unwrap on None")
    ELSE LET a == Top(s, 1)
             rest == Below(s, 1)
             strings == [i \in 1..Len(rest) |-> ValueToString(rest[Len(rest) + 1 - i])]
         IN  IF a.k \in {"Char", "String"}
             THEN Ok(program, <<ValueString(StrJoin(strings, a.v))>>)
             ELSE Panic(program, "type checking error!!!")

_join(program) ==
    LET s == program.stack IN
    IF Len(s) < 1 THEN Panic(program, "unwrap on None")
    ELSE LET a == Top(s, 1)
             rest == Below(s, 1)
             strings == [i \in 1..Len(rest) |-> ValueToString(rest[i])]
         IN  IF a.k \in {"Char", "String"}
             THEN Ok(program, <<ValueString(StrJoin(strings, a.v))>>)
             ELSE Panic(program, "type checking error!!!")

(***************************************************************************)
(* run.rs: MacroOverload and the registry of std_program.  An overload set *)
(* is the sequence of its (types, macro_type) entries in insertion order;  *)
(* the HashMap iterates over them in an order of its own.                  *)
(***************************************************************************)
\* a registration with a nested body in place of the native: Macro(Node), the
\* body being an empty Chunk
OperationWithBody(f) == [kind |-> "Macro", node |-> [node |-> [t |-> "Chunk", v |-> <<>>], pos |-> 0]]

Operation(f) == [kind |-> "Operation", f |-> f]

MacroOverloadNew == <<>>

\* HashMap::insert: an entry whose key equals args (by TypesEq) keeps its key and
\* gets the new value; otherwise a new entry is added
def(macros, args, macro_type) ==
    IF \E i \in 1..Len(macros) : TypesEq(macros[i].types, args)
    THEN LET i == CHOOSE i \in 1..Len(macros) : TypesEq(macros[i].types, args)
         IN  [macros EXCEPT ![i].macro_type = macro_type]
    ELSE Append(macros, [types |-> args, macro_type |-> macro_type])

\* def applied to each signature of sigs in turn, with the same native
RECURSIVE DefAll(_, _, _)
DefAll(macros, sigs, f) ==
    IF sigs = <<>> THEN macros
    ELSE DefAll(def(macros, Head(sigs), Operation(f)), Tail(sigs), f)

\* the numeric signatures with one more, of a single Int, that fits whenever the
\* first does
NumericOverlapping ==
    <<<<"Int", "Int">>, <<"Float", "Float">>, <<"Int", "Float">>, <<"Float", "Int">>,
      <<"Int">>>>

\* the numeric signatures with one more that no numeric native has an arm for
NumericAndString ==
    <<<<"Int", "Int">>, <<"Float", "Float">>, <<"Int", "Float">>, <<"Float", "Int">>,
      <<"String", "Int">>>>

\* the four signatures of the arithmetic and comparison operations
Numeric == <<<<"Int", "Int">>, <<"Float", "Float">>, <<"Int", "Float">>, <<"Float", "Int">>>>

std_macros ==
    [name \in {"LEN", "len", "drop", "copy", "swap", "over", "+", "-", "*", "/", "%",
               "and", "or", "not", "=", "!=", "<", ">", "<=", ">=", ".", "rev", "pos",
               "remove", "count", "split", "join"} |->
        CASE name = "LEN" -> DefAll(MacroOverloadNew, <<(<<>>)>>, "_stack_len")
          [] name = "len" -> DefAll(MacroOverloadNew, <<(<<"String">>)>>, "_len")
          [] name = "drop" -> DefAll(MacroOverloadNew, <<(<<"Any">>)>>, "_drop")
          [] name = "copy" -> DefAll(MacroOverloadNew, <<(<<"Any">>)>>, "_copy")
          [] name = "swap" -> DefAll(MacroOverloadNew, <<(<<"Any", "Any">>)>>, "_swap")
          [] name = "over" -> DefAll(MacroOverloadNew, <<(<<"Any", "Any">>)>>, "_over")
          [] name = "+" -> DefAll(MacroOverloadNew,
                Numeric \o <<(<<"String", "String">>), <<"String", "Char">>>>, "_add")
          [] name = "-" -> DefAll(MacroOverloadNew, Numeric, "_sub")
          [] name = "*" -> DefAll(MacroOverloadNew,
                Numeric \o <<(<<"String", "Int">>), <<"Char", "Int">>>>, "_mult")
          [] name = "/" -> DefAll(MacroOverloadNew, Numeric, "_div")
          [] name = "%" -> DefAll(MacroOverloadNew, Numeric, "_module")
          [] name = "and" -> DefAll(MacroOverloadNew, <<(<<"Boolean", "Boolean">>)>>, "_and")
          [] name = "or" -> DefAll(MacroOverloadNew, <<(<<"Boolean", "Boolean">>)>>, "_or")
          [] name = "not" -> DefAll(MacroOverloadNew, <<(<<"Boolean">>)>>, "_not")
          [] name = "=" -> DefAll(MacroOverloadNew, <<(<<"Any", "Any">>)>>, "_eq")
          [] name = "!=" -> DefAll(MacroOverloadNew, <<(<<"Any", "Any">>)>>, "_ne")
          [] name = "<" -> DefAll(MacroOverloadNew, Numeric, "_lt")
          [] name = ">" -> DefAll(MacroOverloadNew, Numeric, "_gt")
          [] name = "<=" -> DefAll(MacroOverloadNew, Numeric, "_le")
          [] name = ">=" -> DefAll(MacroOverloadNew, Numeric, "_ge")
          [] name = "." -> def(DefAll(MacroOverloadNew, <<(<<"String", "Int">>)>>, "_index"),
                               <<"String", "Int", "Int">>, Operation("_index_range"))
          [] name = "rev" -> DefAll(MacroOverloadNew, <<(<<"String">>)>>, "_rev")
          [] name = "pos" -> DefAll(MacroOverloadNew,
                <<(<<"String", "String">>), <<"String", "Char">>>>, "_pos")
          [] name = "remove" -> DefAll(MacroOverloadNew, <<(<<"String", "Int">>)>>, "_remove")
          [] name = "count" -> DefAll(MacroOverloadNew,
                <<(<<"String", "Char">>), <<"String", "String">>>>, "_count")
          [] name = "split" -> DefAll(MacroOverloadNew,
                <<(<<"String", "Char">>), <<"String", "String">>>>, "_split")
          [] name = "join" -> DefAll(MacroOverloadNew,
                <<(<<"Char">>), <<"String">>>>, "_join")]

\* the entries of an overload set in the order HashMap::iter yields them under `seed`
Iter(macros, seed) == IF seed = 0 THEN macros ELSE Reverse(macros)

\* impl Debug for Type, which Display uses
TypeName ==
    [t \in Types |->
        CASE t = "Any" -> "any"
          [] t = "String" -> "str"
          [] t = "Char" -> "char"
          [] t = "Int" -> "int"
          [] t = "Float" -> "float"
          [] t = "Boolean" -> "bool"]

\* a listing that shows no signature
displayNothing(entries, id) == ""

\* MacroOverload::display on the entries in iteration order: a line "[types] id"
\* for each
RECURSIVE display(_, _)
display(entries, id) ==
    IF entries = <<>> THEN ""
    ELSE "[" \o StrJoin([i \in 1 .. Len(Head(entries).types) |->
                             TypeName[Head(entries).types[i]]], " ")
             \o "] " \o id \o "\n" \o display(Tail(entries), id)

\* a match that tests the length of the stack and no type
MatchesAnyType(types, stack) == Len(stack) >= Len(types)

\* whether the stack matches a signature: long enough, and each type, from the last
\* one backward, equal (by TypeEq) to the type of the stack value from the top down
Matches(types, stack) ==
    /\ Len(stack) >= Len(types)
    /\ \A idx \in 0..(Len(types) - 1) :
          TypeEq(typ(stack[Len(stack) - idx]), types[Len(types) - idx])

\* MacroOverload::get: the first entry in iteration order that matches, or <<>> for None
get(macros, stack, seed) ==
    LET it == Iter(macros, seed)
        hits == {i \in 1..Len(it) : Matches(it[i].types, stack)}
    IN  IF hits = {} THEN <<>>
        ELSE <<it[CHOOSE i \in hits : \A j \in hits : i <= j].macro_type>>

\* the call func(self) of a native registered as Operation(f)
Call(f, program) ==
    CASE f = "_stack_len" -> _stack_len(program)
      [] f = "_len" -> _len(program)
      [] f = "_drop" -> _drop(program)
      [] f = "_copy" -> _copy(program)
      [] f = "_swap" -> _swap(program)
      [] f = "_over" -> _over(program)
      [] f = "_add" -> _add(program)
      [] f = "_sub" -> _sub(program)
      [] f = "_mult" -> _mult(program)
      [] f = "_div" -> _div(program)
      [] f = "_module" -> _module(program)
      [] f = "_and" -> _and(program)
      [] f = "_or" -> _or(program)
      [] f = "_not" -> _not(program)
      [] f = "_eq" -> _eq(program)
      [] f = "_ne" -> _ne(program)
      [] f = "_lt" -> _lt(program)
      [] f = "_gt" -> _gt(program)
      [] f = "_le" -> _le(program)
      [] f = "_ge" -> _ge(program)
      [] f = "_index" -> _index(program)
      [] f = "_index_range" -> _index_range(program)
      [] f = "_rev" -> _rev(program)
      [] f = "_pos" -> _pos(program)
      [] f = "_remove" -> _remove(program)
      [] f = "_count" -> _count(program)
      [] f = "_split" -> _split(program)
      [] f = "_join" -> _join(program)

(***************************************************************************)
(* lexer.rs: Position, Instr, Token and the Lexer.  A Range is the pair    *)
(* <<start, end>>.  The Lexer is the record [idx, ln, col] scanning `text`;*)
(* "" stands for the None of Lexer::get.  A lexer call returns             *)
(* [err, tok, lx]: err is "" or the class of the Error, tok is <<>> for    *)
(* None or <<token>>, lx is the lexer as the call left it.                 *)
(***************************************************************************)
PositionNew(idx, ln, col) == [idx |-> idx, ln |-> ln, col |-> col]

PositionZero == PositionNew(<<0, 1>>, <<0, 1>>, <<0, 1>>)

extend(self, pos) ==
    [idx |-> <<self.idx[1], pos.idx[2]>>,
     ln |-> <<self.ln[1], pos.ln[2]>>,
     col |-> <<self.col[1], pos.col[2]>>]

SYMBOLS == {"\"", "'", "(", ")", "{", "}", "@"}

IsWhitespace(c) == c \in {" ", "\n", "\t", "\r"}

Instr(t, v) == [t |-> t, v |-> v]
TokenNew(instr, pos) == [instr |-> instr, pos |-> pos]

\* the value of a non-empty string of decimal digits
RECURSIVE DigitsValue(_)
DigitsValue(s) ==
    IF Len(s) = 0 THEN 0
    ELSE DigitsValue(SubSeq(s, 1, Len(s) - 1)) * 10 + DigitValue(CharAt(s, Len(s)))

AllDigits(s) == \A i \in 1..Len(s) : IsDigit(CharAt(s, i))

RECURSIVE Pow10(_)
Pow10(n) == IF n = 0 THEN 1 ELSE 10 * Pow10(n - 1)

\* a lexer that never takes a numeral for an integer
ParseI64Never(id) == <<>>

\* str::parse::<i64> of a run that starts with a digit: <<n>>, or <<>> for Err
ParseI64(id) == IF AllDigits(id) THEN <<DigitsValue(id)>> ELSE <<>>

\* the least member of a set of positions, or none
FirstOf(positions, none) ==
    IF positions = {} THEN none ELSE CHOOSE i \in positions : \A j \in positions : i <= j

\* s cut at the first of its characters that is in chars: <<before, after>>
Cut(s, chars) ==
    <<SubSeq(s, 1, FirstOf({i \in 1..Len(s) : CharAt(s, i) \in chars}, Len(s) + 1) - 1),
      SubSeq(s, FirstOf({i \in 1..Len(s) : CharAt(s, i) \in chars}, Len(s) + 1) + 1, Len(s))>>

\* an exponent without its sign
Unsigned(expo) ==
    IF Len(expo) > 0 /\ CharAt(expo, 1) \in {"+", "-"} THEN SubSeq(expo, 2, Len(expo))
    ELSE expo

\* the fraction n / d times p, or divided by p when neg
Scale(n, d, p, neg) == IF neg THEN Frac(n, d * p) ELSE Frac(n * p, d)

\* the f64 of whole.frac (wf) and the exponent digits, if they are well formed
F64OfDigits(wf, edigits, hasExp, neg) ==
    IF ~(/\ Len(wf[1]) > 0 /\ AllDigits(wf[1]) /\ AllDigits(wf[2])
         /\ (~hasExp \/ (Len(edigits) > 0 /\ AllDigits(edigits))))
    THEN <<>>
    ELSE <<Scale(DigitsValue(wf[1] \o wf[2]), Pow10(Len(wf[2])),
                 IF hasExp THEN Pow10(DigitsValue(edigits)) ELSE 1, neg)>>

\* the f64 of a mantissa and an exponent (me)
F64OfParts(id, me) ==
    F64OfDigits(Cut(me[1], {"."}), Unsigned(me[2]), Len(me[1]) < Len(id),
                Len(me[2]) > 0 /\ CharAt(me[2], 1) = "-")

\* str::parse::<f64> of a run that starts with a digit: digits, an optional point
\* with optional digits, an optional exponent; <<fraction>>, or <<>> for Err
ParseF64(id) == F64OfParts(id, Cut(id, {"e", "E"}))

\* the Instr of a run that starts with a digit, from what the two parses gave
NumberInstr(int, float) ==
    IF int # <<>> THEN [err |-> "", instr |-> Instr("Int", int[1])]
    ELSE IF float # <<>> THEN [err |-> "", instr |-> Instr("Float", float[1])]
    ELSE [err |-> "error occurd while parsing the number", instr |-> Instr("", "")]

\* Instr::get: [err, instr]
InstrGet(id) ==
    CASE id = "true" -> [err |-> "", instr |-> Instr("Boolean", TRUE)]
      [] id = "false" -> [err |-> "", instr |-> Instr("Boolean", FALSE)]
      [] id = "end" -> [err |-> "", instr |-> Instr("End", "")]
      [] id = "if" -> [err |-> "", instr |-> Instr("If", "")]
      [] id = "else" -> [err |-> "", instr |-> Instr("Else", "")]
      [] id = "repeat" -> [err |-> "", instr |-> Instr("Repeat", "")]
      [] id = "macro" -> [err |-> "", instr |-> Instr("Macro", "")]
      [] OTHER ->
            IF Len(id) = 0 THEN [err |-> "empty id", instr |-> Instr("", "")]
            ELSE IF IsDigit(CharAt(id, 1)) THEN NumberInstr(ParseI64(id), ParseF64(id))
            ELSE [err |-> "", instr |-> Instr("ID", id)]

LexerNew == [idx |-> 0, ln |-> 0, col |-> 0]

LexerGet(text, lx) == IF lx.idx < Len(text) THEN CharAt(text, lx.idx + 1) ELSE ""

LexerPos(lx) ==
    PositionNew(<<lx.idx, lx.idx + 1>>, <<lx.ln, lx.ln + 1>>, <<lx.col, lx.col + 1>>)

\* Lexer::advance: the line counter moves when the character stepped ONTO is a newline
advance(text, lx) ==
    LET moved == [idx |-> lx.idx + 1, ln |-> lx.ln, col |-> lx.col + 1]
    IN  IF LexerGet(text, moved) = "\n"
        THEN [idx |-> moved.idx, ln |-> moved.ln + 1, col |-> 0]
        ELSE moved

RECURSIVE advance_ws(_, _)
advance_ws(text, lx) ==
    LET c == LexerGet(text, lx)
    IN  IF c = "" \/ ~IsWhitespace(c) \/ c \in SYMBOLS THEN lx
        ELSE advance_ws(text, advance(text, lx))

\* the loop of the string arm: [string, lx] at the closing quote or at the end
RECURSIVE LexString(_, _, _)
LexString(text, lx, string) ==
    LET c == LexerGet(text, lx)
    IN  IF c = "" \/ c = "\"" THEN [string |-> string, lx |-> lx]
        ELSE LexString(text, advance(text, lx), string \o c)

\* the loop of the comment arm: through the newline, or to the end
RECURSIVE LexComment(_, _)
LexComment(text, lx) ==
    LET c == LexerGet(text, lx)
    IN  IF c = "" THEN lx
        ELSE IF c = "\n" THEN advance(text, lx)
        ELSE LexComment(text, advance(text, lx))

\* the loop of the bare run arm: [id, pos, lx]
RECURSIVE LexRun(_, _, _, _)
LexRun(text, lx, id, pos) ==
    LET c == LexerGet(text, lx)
    IN  IF c = "" \/ IsWhitespace(c) \/ c \in SYMBOLS
        THEN [id |-> id, pos |-> pos, lx |-> lx]
        ELSE LexRun(text, advance(text, lx), id \o c, extend(pos, LexerPos(lx)))

LexErr(err, lx) == [err |-> err, tok |-> <<>>, lx |-> lx]
LexTok(instr, pos, lx) == [err |-> "", tok |-> <<TokenNew(instr, pos)>>, lx |-> lx]

\* a list of names left in the order written
RevKeeps(ids) == ids

\* str.iter().rev() on a list of names
Rev(ids) == Reverse(ids)

RECURSIVE next(_, _)
RECURSIVE LexIds(_, _, _, _)

\* one turn of the loop of the '(' and '{' arms, r being what self.next() gave
LexIdsStep(text, close, ids, r) ==
    IF r.err # "" THEN [err |-> r.err, ids |-> ids, lx |-> r.lx]
    ELSE IF r.tok = <<>> THEN [err |-> "unclosed identifier", ids |-> ids, lx |-> r.lx]
    ELSE IF r.tok[1].instr.t = "ID"
         THEN LexIds(text, r.lx, close, Append(ids, r.tok[1].instr.v))
    ELSE [err |-> "expected identifier", ids |-> ids, lx |-> r.lx]

\* the loop of the '(' and '{' arms: [err, ids, lx], stopping at `close` or at the end
LexIds(text, lx, close, ids) ==
    IF LexerGet(text, lx) = "" \/ LexerGet(text, lx) = close
    THEN [err |-> "", ids |-> ids, lx |-> lx]
    ELSE LexIdsStep(text, close, ids, next(text, lx))

\* the end of the '"' arm, r being what the loop gave
LexStringEnd(text, pos, r) ==
    IF LexerGet(text, r.lx) = "" THEN LexErr("unclosed string", r.lx)
    ELSE LexTok(Instr("String", r.string), extend(pos, LexerPos(r.lx)), advance(text, r.lx))

\* the '\'' arm, char being the character after the quote and lx2 the lexer past it
LexChar(text, pos, lx1, char, lx2) ==
    IF char = "" THEN LexErr("expected character", lx1)
    ELSE IF LexerGet(text, lx2) # "'" THEN LexErr("unclosed character", lx2)
    ELSE LexTok(Instr("Char", char), extend(pos, LexerPos(lx2)), advance(text, lx2))

\* the end of the '(' and '{' arms, r being what the loop gave
LexIdsEnd(text, pos, t, r) ==
    IF r.err # "" THEN LexErr(r.err, r.lx)
    ELSE IF LexerGet(text, r.lx) = "" THEN LexErr("unclosed identifier", r.lx)
    ELSE LexTok(Instr(t, Rev(r.ids)), extend(pos, LexerPos(r.lx)), advance(text, r.lx))

\* the end of the '@' arm, r being what self.next() gave
LexCopy(pos, r) ==
    IF r.err # "" THEN LexErr(r.err, r.lx)
    ELSE IF r.tok = <<>> THEN LexErr("unexpected end", r.lx)
    ELSE LexTok(Instr("Copy", r.tok[1]), extend(pos, r.tok[1].pos), r.lx)

\* the end of the default arm, r being the run read and i what Instr::get gave
LexInstr(r, i) ==
    IF i.err # "" THEN LexErr(i.err, r.lx) ELSE LexTok(i.instr, r.pos, r.lx)

LexWord(r) == LexInstr(r, InstrGet(r.id))

\* the match of Lexer::next on the character c at lx, lx1 being the lexer past it
NextChar(text, lx, c, pos, lx1) ==
    CASE c = "" -> [err |-> "", tok |-> <<>>, lx |-> lx]
      [] c = "\"" -> LexStringEnd(text, pos, LexString(text, lx1, ""))
      [] c = "'" -> LexChar(text, pos, lx1, LexerGet(text, lx1), advance(text, lx1))
      [] c = "(" -> LexIdsEnd(text, pos, "Take", LexIds(text, lx1, ")", <<>>))
      [] c = "{" -> LexIdsEnd(text, pos, "CopyTo", LexIds(text, lx1, "}", <<>>))
      [] c = "@" -> LexCopy(pos, next(text, lx1))
      [] c = "#" -> next(text, LexComment(text, lx))
      [] OTHER -> LexWord(LexRun(text, lx1, c, pos))

NextAt(text, lx) == NextChar(text, lx, LexerGet(text, lx), LexerPos(lx), advance(text, lx))

\* Lexer::next
next(text, lx0) == NextAt(text, advance_ws(text, lx0))

RECURSIVE LexAll(_, _, _)

\* one turn of the loop of Lexer::lex, r being what self.next() gave
LexAllStep(text, tokens, r) ==
    IF r.err # "" THEN [err |-> r.err, tokens |-> tokens]
    ELSE IF r.tok = <<>> THEN [err |-> "", tokens |-> tokens]
    ELSE LexAll(text, r.lx, Append(tokens, r.tok[1]))

\* Lexer::lex: [err, tokens]
LexAll(text, lx, tokens) == LexAllStep(text, tokens, next(text, lx))

lex(text) == LexAll(text, LexerNew, <<>>)

(***************************************************************************)
(* parser.rs: Node and the Parser.  A NodeType is [t, v]: v is the literal *)
(* of a literal node, the name of an ID, the names of a Take or CopyTo,    *)
(* the token of a Copy, the children of a Chunk, the body of a Repeat, and *)
(* <<case_node, else_node>> for an If, else_node being <<>> for None or    *)
(* <<node>>.  A parser call returns [err, node, idx]: node is <<>> for     *)
(* None or <<node>>, idx the parser's position as the call left it.        *)
(***************************************************************************)
NodeType(t, v) == [t |-> t, v |-> v]
NodeNew(node, pos) == [node |-> node, pos |-> pos]

\* Parser::get: <<>> for None
ParserGet(tokens, idx) == IF idx < Len(tokens) THEN <<tokens[idx + 1]>> ELSE <<>>

\* a body that is a Chunk whatever the number of its nodes
BodyNodeWrapped(nodes, pos) == NodeNew(NodeType("Chunk", nodes), pos)

\* a body of one node is used as it is, any other body becomes a Chunk
BodyNode(nodes, pos) ==
    IF Len(nodes) = 1 THEN nodes[1] ELSE NodeNew(NodeType("Chunk", nodes), pos)

RECURSIVE ParserNext(_, _)
RECURSIVE ParseBody(_, _, _, _, _)

\* one turn of a body loop, r being what self.next() gave
ParseBodyStep(tokens, pos, nodes, stopAtElse, r) ==
    IF r.err # "" THEN [err |-> r.err, nodes |-> nodes, pos |-> pos, idx |-> r.idx]
    ELSE ParseBody(tokens, r.idx, extend(pos, r.node[1].pos), Append(nodes, r.node[1]),
                   stopAtElse)

\* the test of a body loop on t, the token at idx
ParseBodyAt(tokens, idx, pos, nodes, stopAtElse, t) ==
    IF t = <<>> THEN [err |-> "", nodes |-> nodes, pos |-> pos, idx |-> idx]
    ELSE IF t[1].instr.t = "End"
         THEN [err |-> "", nodes |-> nodes, pos |-> pos, idx |-> idx + 1]
    ELSE IF stopAtElse /\ t[1].instr.t = "Else"
         THEN [err |-> "", nodes |-> nodes, pos |-> pos, idx |-> idx]
    ELSE ParseBodyStep(tokens, pos, nodes, stopAtElse, ParserNext(tokens, idx))

\* the body loops of the If and Repeat productions: [err, nodes, pos, idx].  The
\* loop ends past an End token, at an Else token when stopAtElse, or at the end
ParseBody(tokens, idx, pos, nodes, stopAtElse) ==
    ParseBodyAt(tokens, idx, pos, nodes, stopAtElse, ParserGet(tokens, idx))

\* the If node of a body b without else branch
IfNode(b) ==
    IF b.err # "" THEN [err |-> b.err, node |-> <<>>, idx |-> b.idx]
    ELSE [err |-> "", idx |-> b.idx,
          node |-> <<NodeNew(NodeType("If", <<BodyNode(b.nodes, b.pos), <<>>>>), b.pos)>>]

\* the If node of a body b and an else body e
IfElseNode(b, e) ==
    IF e.err # "" THEN [err |-> e.err, node |-> <<>>, idx |-> e.idx]
    ELSE [err |-> "", idx |-> e.idx,
          node |-> <<NodeNew(NodeType("If", <<BodyNode(b.nodes, e.pos),
                                               <<BodyNode(e.nodes, e.pos)>>>>), e.pos)>>]

\* the If production after its body b, n being the token the body loop stopped at
ParseElse(tokens, b, n) ==
    IF b.err = "" /\ n # <<>> /\ n[1].instr.t = "Else"
    THEN IfElseNode(b, ParseBody(tokens, b.idx + 1, b.pos, <<>>, FALSE))
    ELSE IfNode(b)

ParseIf(tokens, b) == ParseElse(tokens, b, ParserGet(tokens, b.idx))

\* the Repeat node of a body b
RepeatNode(b) ==
    IF b.err # "" THEN [err |-> b.err, node |-> <<>>, idx |-> b.idx]
    ELSE [err |-> "", idx |-> b.idx,
          node |-> <<NodeNew(NodeType("Repeat", BodyNode(b.nodes, b.pos)), b.pos)>>]

\* the match of Parser::next on a token
ParseToken(tokens, idx, token) ==
    CASE token.instr.t \in {"String", "Char", "Int", "Float", "Boolean", "ID",
                            "Take", "Copy", "CopyTo"} ->
            [err |-> "", idx |-> idx + 1,
             node |-> <<NodeNew(NodeType(token.instr.t, token.instr.v), token.pos)>>]
      [] token.instr.t = "If" ->
            ParseIf(tokens, ParseBody(tokens, idx + 1, token.pos, <<>>, TRUE))
      [] token.instr.t = "Repeat" ->
            RepeatNode(ParseBody(tokens, idx + 1, token.pos, <<>>, FALSE))
      [] OTHER -> [err |-> "unexpected", node |-> <<>>, idx |-> idx]

\* Parser::next
ParserNext(tokens, idx) ==
    IF ParserGet(tokens, idx) = <<>> THEN [err |-> "", node |-> <<>>, idx |-> idx]
    ELSE ParseToken(tokens, idx, ParserGet(tokens, idx)[1])

RECURSIVE ParseAll(_, _, _, _)

\* one turn of the loop of Parser::parse, r being what self.next() gave
ParseAllStep(tokens, pos, nodes, r) ==
    IF r.err # "" THEN [err |-> r.err, nodes |-> nodes, pos |-> pos]
    ELSE IF r.node = <<>> THEN [err |-> "", nodes |-> nodes, pos |-> pos]
    ELSE ParseAll(tokens, r.idx, extend(pos, r.node[1].pos), Append(nodes, r.node[1]))

\* the loop of Parser::parse: [err, nodes, pos]
ParseAll(tokens, idx, pos, nodes) ==
    ParseAllStep(tokens, pos, nodes, ParserNext(tokens, idx))

\* the Chunk node of what the loop gave
ChunkNode(r) == [err |-> r.err, node |-> NodeNew(NodeType("Chunk", r.nodes), r.pos)]

\* Parser::parse: [err, node]
parse(tokens) ==
    IF Len(tokens) = 0
    THEN [err |-> "", node |-> NodeNew(NodeType("Chunk", <<>>), PositionZero)]
    ELSE ChunkNode(ParseAll(tokens, 0, tokens[1].pos, <<>>))

(***************************************************************************)
(* run.rs: Program::run.  A call returns a Result extended with log: one   *)
(* event per call of run that it made (itself last), in the order the      *)
(* calls returned.  An event records the node, the nesting depth of the    *)
(* call, the stack and variable table before and after it, and res.        *)
(***************************************************************************)
Event(node, depth, program, r) ==
    [node |-> node, depth |-> depth,
     pre |-> [stack |-> program.stack, vars |-> program.vars],
     post |-> [stack |-> r.stack, vars |-> r.vars],
     res |-> r.res]

\* the return of the call of run on node: r with the log of the calls made inside
\* and the event of this call
Return(node, depth, program, r, inner) ==
    [stack |-> r.stack, vars |-> r.vars, macros |-> r.macros, res |-> r.res,
     log |-> Append(inner, Event(node, depth, program, r))]

\* an error return that loses the registry
ErrForgets(program, stack, vars, msg) == Result(stack, vars, [id \in {} |-> <<>>], msg)

Err(program, stack, vars, msg) == Result(stack, vars, program.macros, msg)

\* the loop of the Take arm: pop a value for each name in turn and bind it
RECURSIVE TakeIds(_, _, _)
TakeIds(ids, program, stack_vars) ==
    IF ids = <<>>
    THEN Result(stack_vars[1], stack_vars[2], program.macros, "Ok")
    ELSE IF stack_vars[1] = <<>>
         THEN Err(program, stack_vars[1], stack_vars[2],
                  "cannot take value due to stack underflow")
         ELSE TakeIds(Tail(ids), program,
                      <<Below(stack_vars[1], 1),
                        VarsInsert(stack_vars[2], Head(ids), Top(stack_vars[1], 1))>>)

\* a CopyTo arm that pops each value it binds (pop for peek)
CopyToIdsPops(ids, program, vars) == TakeIds(ids, program, <<program.stack, vars>>)

\* the loop of the CopyTo arm: bind each name in turn to a clone of the top
RECURSIVE CopyToIds(_, _, _)
CopyToIds(ids, program, vars) ==
    IF ids = <<>> THEN Result(program.stack, vars, program.macros, "Ok")
    ELSE IF program.stack = <<>>
         THEN Err(program, program.stack, vars, "cannot take value due to stack underflow")
         ELSE CopyToIds(Tail(ids), program,
                        VarsInsert(vars, Head(ids), Top(program.stack, 1)))

\* a loop that pushes the clones from the last name of ids to the first
RECURSIVE CopyIdsBackward(_, _, _)
CopyIdsBackward(ids, program, stack) ==
    IF ids = <<>> THEN Ok(program, stack)
    ELSE IF ids[Len(ids)] \in DOMAIN program.vars
         THEN CopyIdsBackward(SubSeq(ids, 1, Len(ids) - 1), program,
                              Append(stack, program.vars[ids[Len(ids)]]))
    ELSE IF ids[Len(ids)] \in DOMAIN program.macros
         THEN Err(program, stack, program.vars, "cannot copy a macro")
    ELSE Err(program, stack, program.vars, "unknown id")

\* the loop of the Copy arm over the names of a CopyTo token, already reversed:
\* push a clone of each variable in turn
RECURSIVE CopyIds(_, _, _)
CopyIds(ids, program, stack) ==
    IF ids = <<>> THEN Ok(program, stack)
    ELSE IF Head(ids) \in DOMAIN program.vars
         THEN CopyIds(Tail(ids), program, Append(stack, program.vars[Head(ids)]))
    ELSE IF Head(ids) \in DOMAIN program.macros
         THEN Err(program, stack, program.vars, "cannot copy a macro")
    ELSE Err(program, stack, program.vars, "unknown id")

\* an If arm that runs the else node, if there is one, after the case node's turn
\* was decided the other way round
BranchInverted(b, case_node, else_node) == IF b THEN else_node ELSE <<case_node>>

\* the length of the inclusive range 0..=count
RangeLenInclusive(count) == IF count >= 0 THEN count + 1 ELSE 0

\* the branch the If arm runs on a Boolean b: the case node when b holds, else
\* the else node if there is one; <<>> or <<node>>
Branch(b, case_node, else_node) == IF b THEN <<case_node>> ELSE else_node

\* the number of values of the range 0..count the Repeat arm iterates over
RangeLen(count) == IF count > 0 THEN count ELSE 0

RECURSIVE run(_, _, _, _)
RECURSIVE RunChunk(_, _, _, _, _)
RECURSIVE RunRepeat(_, _, _, _, _, _)

\* a turn of the Chunk arm's loop that drops the Result: self.run(node);
RunChunkStepDrops(nodes, seed, depth, log, c) ==
    IF IsPanic(c.res)
    THEN [r |-> Result(c.stack, c.vars, c.macros, c.res), log |-> log \o c.log]
    ELSE RunChunk(Tail(nodes), ProgramOf(c.stack, c.vars, c.macros), seed, depth,
                  log \o c.log)

\* one turn of the Chunk arm's loop, c being what self.run(node)? returned
RunChunkStep(nodes, seed, depth, log, c) ==
    IF c.res # "Ok"
    THEN [r |-> Result(c.stack, c.vars, c.macros, c.res), log |-> log \o c.log]
    ELSE RunChunk(Tail(nodes), ProgramOf(c.stack, c.vars, c.macros), seed, depth,
                  log \o c.log)

\* the loop of the Chunk arm: self.run(node)? on each child; [Result, log]
RunChunk(nodes, program, seed, depth, log) ==
    IF nodes = <<>> THEN [r |-> Ok(program, program.stack), log |-> log]
    ELSE RunChunkStep(nodes, seed, depth, log, run(Head(nodes), program, seed, depth))

\* one turn of the Repeat arm's loop, c being what self.run(*body.clone()) returned:
\* the Result is dropped
RunRepeatStep(body, count, seed, depth, log, c) ==
    IF IsPanic(c.res)
    THEN [r |-> Result(c.stack, c.vars, c.macros, c.res), log |-> log \o c.log]
    ELSE RunRepeat(body, count - 1, ProgramOf(c.stack, c.vars, c.macros), seed, depth,
                   log \o c.log)

\* the loop of the Repeat arm, count turns; [Result, log]
RunRepeat(body, count, program, seed, depth, log) ==
    IF count = 0 THEN [r |-> Ok(program, program.stack), log |-> log]
    ELSE RunRepeatStep(body, count, seed, depth, log, run(body, program, seed, depth))

\* the return of a call that made no call of run
Leaf(node, depth, program, r) == Return(node, depth, program, r, <<>>)

\* the return of a call that ran a loop, c being [Result, log]
ReturnLoop(node, depth, program, c) == Return(node, depth, program, c.r, c.log)

\* the return of a call whose Result is that of the call c it made: self.run(node)?
ReturnOf(node, depth, program, c) ==
    Return(node, depth, program, Result(c.stack, c.vars, c.macros, c.res), c.log)

\* the return of a call that dropped the Result of the call c it made: self.run(node);
ReturnDropped(node, depth, program, c) ==
    Return(node, depth, program,
           Result(c.stack, c.vars, c.macros, IF IsPanic(c.res) THEN c.res ELSE "Ok"),
           c.log)

\* a Copy arm that reads the variable as a bare identifier does: the binding goes
RunCopyConsumes(program, token) ==
    IF token.instr.t = "ID" /\ token.instr.v \in DOMAIN program.vars
    THEN Result(Append(program.stack, program.vars[token.instr.v]),
                VarsRemove(program.vars, token.instr.v), program.macros, "Ok")
    ELSE IF token.instr.t = "ID" /\ token.instr.v \in DOMAIN program.macros
         THEN Err(program, program.stack, program.vars, "cannot copy a macro")
         ELSE Err(program, program.stack, program.vars, "unknown id")

\* the Copy arm
RunCopy(program, token) ==
    CASE token.instr.t = "ID" ->
            IF token.instr.v \in DOMAIN program.vars
            THEN Ok(program, Append(program.stack, program.vars[token.instr.v]))
            ELSE IF token.instr.v \in DOMAIN program.macros
                 THEN Err(program, program.stack, program.vars, "cannot copy a macro")
                 ELSE Err(program, program.stack, program.vars, "unknown id")
      [] token.instr.t = "CopyTo" -> CopyIds(Rev(token.instr.v), program, program.stack)
      [] OTHER -> Err(program, program.stack, program.vars,
                      "expected identifier or copy-to-indentifiers")

\* the ID arm on a registered name, m being what macros.get(&self.stack) gave
RunMacro(node, program, seed, depth, m) ==
    IF m = <<>>
    THEN Leaf(node, depth, program,
              Err(program, program.stack, program.vars,
                  "no macro definition \"" \o node.node.v
                      \o "\" found with current stack, following macros are defined:\n"
                      \o display(Iter(program.macros[node.node.v], seed), node.node.v)
                      \o "\n"))
    ELSE IF m[1].kind = "Macro"
         THEN ReturnOf(node, depth, program, run(m[1].node, program, seed, depth + 1))
         ELSE Leaf(node, depth, program, Call(m[1].f, program))

\* an ID arm that looks the name up among the variables first
RunIDVarsFirst(node, program, seed, depth, id) ==
    IF id \in DOMAIN program.vars
    THEN Leaf(node, depth, program,
              Result(Append(program.stack, program.vars[id]),
                     VarsRemove(program.vars, id), program.macros, "Ok"))
    ELSE IF id \in DOMAIN program.macros
         THEN RunMacro(node, program, seed, depth,
                       get(program.macros[id], program.stack, seed))
         ELSE Leaf(node, depth, program,
                   Err(program, program.stack, program.vars, "unknown id"))

\* the ID arm
RunID(node, program, seed, depth, id) ==
    IF id \in DOMAIN program.macros
    THEN RunMacro(node, program, seed, depth, get(program.macros[id], program.stack, seed))
    ELSE IF id \in DOMAIN program.vars
         THEN Leaf(node, depth, program,
                   Result(Append(program.stack, program.vars[id]),
                          VarsRemove(program.vars, id), program.macros, "Ok"))
         ELSE Leaf(node, depth, program,
                   Err(program, program.stack, program.vars, "unknown id"))

\* the If arm on a Boolean, b being the branch to run and popped the program with
\* the condition popped
RunBranch(node, program, popped, seed, depth, b) ==
    IF b # <<>>
    THEN ReturnDropped(node, depth, program, run(b[1], popped, seed, depth + 1))
    ELSE Leaf(node, depth, program, Ok(popped, popped.stack))

\* an If arm that takes a value that is no Boolean for true
RunIfTruthy(node, program, seed, depth, cond, popped) ==
    RunBranch(node, program, popped, seed, depth,
              Branch(cond.k # "Boolean" \/ cond.v, node.node.v[1], node.node.v[2]))

\* the If arm on a stack that is not empty, cond being the value popped
RunIf(node, program, seed, depth, cond, popped) ==
    IF cond.k # "Boolean"
    THEN Leaf(node, depth, program,
              Err(program, popped.stack, program.vars,
                  "expected a boolean value on top of the stack"))
    ELSE RunBranch(node, program, popped, seed, depth,
                   Branch(cond.v, node.node.v[1], node.node.v[2]))

\* the Repeat arm on a stack that is not empty, count being the value popped
RunCount(node, program, seed, depth, count, popped) ==
    IF count.k # "Int"
    THEN Leaf(node, depth, program,
              Err(program, popped.stack, program.vars,
                  "expected a boolean value on top of the stack"))
    ELSE ReturnLoop(node, depth, program,
                    RunRepeat(node.node.v, RangeLen(count.v), popped, seed, depth + 1, <<>>))

\* the error of If and Repeat on an empty stack
Underflow(program) ==
    Err(program, program.stack, program.vars,
        "couldn't perform if-control-flow operation due to stack underflow")

\* Program::run
run(node, program, seed, depth) ==
    CASE node.node.t = "Chunk" ->
            ReturnLoop(node, depth, program, RunChunk(node.node.v, program, seed, depth + 1, <<>>))
      [] node.node.t = "String" ->
            Leaf(node, depth, program, Ok(program, Append(program.stack, ValueString(node.node.v))))
      [] node.node.t = "Char" ->
            Leaf(node, depth, program, Ok(program, Append(program.stack, ValueChar(node.node.v))))
      [] node.node.t = "Int" ->
            Leaf(node, depth, program, Ok(program, Append(program.stack, ValueInt(node.node.v))))
      [] node.node.t = "Float" ->
            Leaf(node, depth, program, Ok(program, Append(program.stack, ValueFloat(node.node.v))))
      [] node.node.t = "Boolean" ->
            Leaf(node, depth, program, Ok(program, Append(program.stack, ValueBoolean(node.node.v))))
      [] node.node.t = "Take" ->
            Leaf(node, depth, program,
                 TakeIds(node.node.v, program, <<program.stack, program.vars>>))
      [] node.node.t = "CopyTo" ->
            Leaf(node, depth, program, CopyToIds(node.node.v, program, program.vars))
      [] node.node.t = "Copy" -> Leaf(node, depth, program, RunCopy(program, node.node.v))
      [] node.node.t = "ID" -> RunID(node, program, seed, depth, node.node.v)
      [] node.node.t = "If" ->
            IF program.stack = <<>> THEN Leaf(node, depth, program, Underflow(program))
            ELSE RunIf(node, program, seed, depth, Top(program.stack, 1),
                       ProgramOf(Below(program.stack, 1), program.vars, program.macros))
      [] node.node.t = "Repeat" ->
            IF program.stack = <<>> THEN Leaf(node, depth, program, Underflow(program))
            ELSE RunCount(node, program, seed, depth, Top(program.stack, 1),
                          ProgramOf(Below(program.stack, 1), program.vars, program.macros))
      [] node.node.t = "Macro" -> Leaf(node, depth, program, Panic(program, "not yet implemented"))

(***************************************************************************)
(* main.rs: the read-eval loop.  main builds Program::std_program() and    *)
(* then, for each line read, calls run(&mut program, path, input): it      *)
(* lexes the line, parses the tokens and runs the tree on the program; an  *)
(* error of any stage is printed and the loop goes on; a panic ends the    *)
(* process.                                                                *)
(***************************************************************************)
VARIABLES
    stack,      \* program.stack
    vars,       \* program.vars
    macros,     \* program.macros
    lines,      \* the number of lines read so far
    out         \* the last line read and what became of it

state == <<stack, vars, macros, lines, out>>

\* the lines a session may enter
Sources ==
    { "", "1", "2", "3", "0 1 -", "2.0", "2.5", "true", "false",
      "\"abc\"", "\"a\"", "'b'",
      "(x)", "(x y)", "x", "b", "y", "@{a b}", "@len", "@5",
      "+", "-", ".", "swap", "len",
      "if 1 else 2 end", "if 1 end", "if (x y) end", "false if else end",
      "repeat 1 end", "repeat + end",
      "true if 1 else 2 end", "false if 1 else 2 end", "3 repeat 1 end",
      "true if x 7 end 8", "2 repeat x 7 end 8",
      "2 3 +", "2.0 3 +", "\"a\" 'b' +", "5 (x) x x", "9 {a b} a b",
      "1 2 (x y) @{x y}",
      "0", "0 3 - .", "\"abc\" \"a\" +", "3 2.5 +", "2.5 2.5 +",
      "1 (b) @{a b}",
      "else", "if 1 end else 2 end", "if 1",
      "1 0 %", "1 2 3", "(x x)", "5 (x) @x @x", "1 x 8",
      "\"abc\" \"a\" (len)", ")", "  \"\n\"" }

\* what run of main.rs has after parser::parse, p being what it gave
Parsed(p) ==
    IF p.err # "" THEN [stage |-> "parse", err |-> p.err, node |-> <<>>]
    ELSE [stage |-> "run", err |-> "", node |-> <<p.node>>]

\* what run of main.rs has after lexer::lex, l being what it gave
Lexed(l) ==
    IF l.err # "" THEN [stage |-> "lex", err |-> l.err, node |-> <<>>]
    ELSE Parsed(parse(l.tokens))

\* what lexing and parsing make of each line
Front == [text \in Sources \cup DOMAIN std_macros |-> Lexed(lex(text))]

\* the iteration orders of a HashMap the model tells apart
Seeds == {0, 1}

Init ==
    /\ stack = <<>>
    /\ vars = NoVars
    /\ macros = std_macros
    /\ lines = 0
    /\ out = [text |-> "", stage |-> "init", res |-> "Ok", log |-> <<>>]

\* the end of run of main.rs, r being what program.run(nodes) returned
Ran(text, r) ==
    /\ Len(r.stack) <= MaxStack
    /\ out' = [text |-> text, stage |-> "run", res |-> r.res, log |-> r.log]
    /\ stack' = r.stack
    /\ vars' = r.vars
    /\ macros' = r.macros

\* run of main.rs on the line `text`, f being what lexing and parsing made of it
RunLine(text, seed, f) ==
    IF f.stage # "run"
    THEN /\ out' = [text |-> text, stage |-> f.stage, res |-> f.err, log |-> <<>>]
         /\ UNCHANGED <<stack, vars, macros>>
    ELSE Ran(text, run(f.node[1], ProgramOf(stack, vars, macros), seed, 0))

\* one turn of the loop of main: run(&mut program, path, input) on the line `text`
Line(text, seed) ==
    /\ ~IsPanic(out.res)
    /\ lines < MaxLines
    /\ lines' = lines + 1
    /\ RunLine(text, seed, Front[text])

Next == \E text \in Sources, seed \in Seeds : Line(text, seed)

Spec == Init /\ [][Next]_state

(***************************************************************************)
(* The operations on their operands: the session has left up to MaxArity   *)
(* values on the stack, and the last line it reads is the name of one      *)
(* operation of std_program.                                               *)
(***************************************************************************)
\* the longest signature std_program registers has three types
MaxArity == 3

InitOps ==
    /\ stack \in UNION { [1..n -> { ValueInt(0 - 1), ValueInt(0), ValueInt(1), ValueInt(2),
                                    ValueInt(3), ValueFloat(Frac(5, 2)),
                                    ValueFloat(Frac(0 - 2, 1)), ValueString(""),
                                    ValueString("a"), ValueString("abc"), ValueString("aba"),
                                    ValueChar("a"),
                                    ValueChar("b"), ValueBoolean(TRUE),
                                    ValueBoolean(FALSE) }] : n \in 0..MaxArity }
    /\ vars = VarsInsert(NoVars, "x", ValueInt(7))
    /\ macros = std_macros
    /\ lines = MaxLines - 1
    /\ out = [text |-> "", stage |-> "init", res |-> "Ok", log |-> <<>>]

SpecOps == InitOps /\ [][\E id \in DOMAIN std_macros, seed \in Seeds : Line(id, seed)]_state

(***************************************************************************)
(* MacroOverload::def on its own: an overload set that starts empty, as    *)
(* MacroOverload::new makes it, and receives definitions one by one.  out  *)
(* records the last call: its arguments and the set it was applied to.     *)
(***************************************************************************)
InitDef ==
    /\ stack = <<>>
    /\ vars = NoVars
    /\ macros = [id \in {"+"} |-> MacroOverloadNew]
    /\ lines = 0
    /\ out = [text |-> "", stage |-> "init", res |-> "Ok", log |-> <<>>]

\* self.macros.get_mut(id).def(args, Operation(f))
Define(id, args, f) ==
    /\ Len(macros[id]) < MaxDefs
    /\ macros' = [macros EXCEPT ![id] = def(@, args, Operation(f))]
    /\ out' = [text |-> id, stage |-> "def", res |-> "Ok",
               log |-> <<[args |-> args, f |-> f, pre |-> macros[id]]>>]
    /\ UNCHANGED <<stack, vars, lines>>

SpecDef ==
    InitDef /\ [][\E id \in {"+"}, f \in {"_add", "_sub"},
                  args \in UNION { [1..n -> {"Any", "Int", "Float"}] : n \in 0..2 } :
                     Define(id, args, f)]_state

(***************************************************************************)
(* Properties.  They are stated on out, the record of the last line: its   *)
(* log holds one event for every call of Program::run the line made.       *)
(***************************************************************************)
Log == out.log
Events == 1 .. Len(out.log)

\* the call of the event returned Err
Failed(e) == e.res # "Ok" /\ ~IsPanic(e.res)

NodeT(e) == e.node.node.t
NodeV(e) == e.node.node.v

\* the program the last line started from: the state before its outermost call
LinePre == Log[Len(Log)].pre

\* the calls made directly by the call of event j: the log is in order of
\* return, so the calls made inside j are the events of greater depth that
\* come right before it
Inside(j) ==
    {i \in 1 .. j - 1 : \A h \in i .. j - 1 : Log[h].depth > Log[j].depth}
Children(j) == {i \in Inside(j) : Log[i].depth = Log[j].depth + 1}

\* C1: run returns Err whenever the evaluation of any node of the tree fails,
\* the nodes nested in If and Repeat bodies included: after the first failure
\* nothing more is evaluated (only the enclosing calls return, each with that
\* error) and the error is the result of the line.
C1_FirstFailureIsReturned ==
    out.stage = "run" =>
        \A i \in Events :
            (Failed(Log[i]) /\ \A h \in 1 .. i - 1 : ~Failed(Log[h])) =>
                /\ out.res = Log[i].res
                /\ \A j \in i + 1 .. Len(Log) :
                        /\ Log[j].depth < Log[j - 1].depth
                        /\ Log[j].res = Log[i].res

\* the least number of values a signature of the registered name needs
MinArity(name) ==
    CHOOSE n \in {Len(o.types) : o \in {macros[name][i] : i \in DOMAIN macros[name]}} :
        \A o \in {macros[name][i] : i \in DOMAIN macros[name]} : n <= Len(o.types)

\* the instruction of event e found fewer values on the stack than it consumes
Underflows(e) ==
    \/ NodeT(e) = "Take" /\ Len(e.pre.stack) < Len(NodeV(e))
    \/ NodeT(e) \in {"If", "Repeat"} /\ e.pre.stack = <<>>
    \/ /\ NodeT(e) = "ID"
       /\ NodeV(e) \in DOMAIN macros
       /\ Len(e.pre.stack) < MinArity(NodeV(e))

\* C2: an instruction that finds fewer values on the stack than it consumes
\* (Take with k names on fewer than k values, If or Repeat on an empty stack,
\* a builtin on fewer values than each of its signatures needs) returns an
\* error and leaves the stack as it was.
C2_UnderflowKeepsStack ==
    out.stage = "run" =>
        \A i \in Events :
            Underflows(Log[i]) =>
                /\ Failed(Log[i])
                /\ Log[i].post.stack = Log[i].pre.stack

\* C3: the instruction at which run fails contributes no pop, no push and no
\* binding: the stack and the variable table after it are those the
\* instructions completed before it produced.
C3_FailureHasNoEffect ==
    out.stage = "run" =>
        \A i \in Events :
            (NodeT(Log[i]) # "Chunk" /\ Failed(Log[i])) =>
                Log[i].post = Log[i].pre

\* event e evaluates a name that is no registered operation: a variable read
IsRead(e) == NodeT(e) = "ID" /\ NodeV(e) \notin DOMAIN macros

\* event e is a Take or a CopyTo that lists name
Binds(e, name) ==
    /\ NodeT(e) \in {"Take", "CopyTo"}
    /\ \E k \in DOMAIN NodeV(e) : NodeV(e)[k] = name

\* nothing between the events i and j binds or reads name
Untouched(i, j, name) ==
    \A h \in i + 1 .. j - 1 :
        /\ ~Binds(Log[h], name)
        /\ ~(IsRead(Log[h]) /\ NodeV(Log[h]) = name)

\* C4: reading a variable consumes it.  A read of a bound name pushes its
\* value and removes the binding, the other bindings kept; a read of an
\* unbound name fails with the unknown-id error and changes nothing.  So of
\* two reads of one name with no binding of it in between, the second fails
\* with the unknown-id error and pushes nothing.
C4_ReadConsumes ==
    out.stage = "run" =>
        /\ \A i \in Events :
              LET e == Log[i]
                  x == NodeV(e)
              IN  IsRead(e) =>
                    IF x \in DOMAIN e.pre.vars
                    THEN /\ e.res = "Ok"
                         /\ e.post.stack = Append(e.pre.stack, e.pre.vars[x])
                         /\ DOMAIN e.post.vars = (DOMAIN e.pre.vars) \ {x}
                         /\ \A y \in DOMAIN e.post.vars : e.post.vars[y] = e.pre.vars[y]
                    ELSE /\ e.res = "unknown id"
                         /\ e.post = e.pre
        /\ \A i \in Events, j \in Events :
              (/\ i < j
               /\ IsRead(Log[i]) /\ IsRead(Log[j])
               /\ NodeV(Log[i]) = NodeV(Log[j])
               /\ \A h \in i + 1 .. j - 1 : ~Binds(Log[h], NodeV(Log[i]))) =>
                    /\ Log[j].res = "unknown id"
                    /\ Log[j].post.stack = Log[j].pre.stack

\* a line that binds x with Take, reads it with success and reads it again in vain
C4_Witness ==
    /\ out.stage = "run"
    /\ \E i \in Events, j \in Events, k \in Events :
          /\ i < j /\ j < k
          /\ NodeT(Log[i]) = "Take" /\ Log[i].res = "Ok" /\ Binds(Log[i], "x")
          /\ IsRead(Log[j]) /\ NodeV(Log[j]) = "x" /\ Log[j].res = "Ok"
          /\ Log[j].post.stack = Append(Log[j].pre.stack, Log[i].pre.stack[Len(Log[i].pre.stack)])
          /\ IsRead(Log[k]) /\ NodeV(Log[k]) = "x" /\ Log[k].res = "unknown id"
          /\ Untouched(j, k, "x")

\* C5: CopyTo leaves the stack as it was and, on a stack that is not empty,
\* binds every listed name to the top value, the other bindings kept; a read
\* of a listed name that follows, the name untouched in between, pushes a
\* value equal to that top.
C5_CopyToKeepsStackAndAliases ==
    out.stage = "run" =>
        /\ \A i \in Events :
              LET e == Log[i]
              IN  NodeT(e) = "CopyTo" =>
                    /\ e.post.stack = e.pre.stack
                    /\ e.pre.stack # <<>> =>
                          /\ e.res = "Ok"
                          /\ DOMAIN e.post.vars =
                                (DOMAIN e.pre.vars) \cup {NodeV(e)[k] : k \in DOMAIN NodeV(e)}
                          /\ \A y \in DOMAIN e.post.vars :
                                e.post.vars[y] = IF Binds(e, y) THEN Top(e.pre.stack, 1)
                                                 ELSE e.pre.vars[y]
        /\ \A i \in Events, j \in Events :
              (/\ i < j
               /\ NodeT(Log[i]) = "CopyTo" /\ Log[i].pre.stack # <<>>
               /\ IsRead(Log[j]) /\ Binds(Log[i], NodeV(Log[j]))
               /\ Untouched(i, j, NodeV(Log[j]))) =>
                    /\ Log[j].res = "Ok"
                    /\ Log[j].post.stack = Append(Log[j].pre.stack, Top(Log[i].pre.stack, 1))

\* {a b} on a stack that is not empty, then a read of a and a read of b, each
\* pushing the value that was on top
C5_Witness ==
    /\ out.stage = "run"
    /\ \E i \in Events, j \in Events, k \in Events :
          /\ i < j /\ j < k
          /\ NodeT(Log[i]) = "CopyTo" /\ Binds(Log[i], "a") /\ Binds(Log[i], "b")
          /\ Log[i].pre.stack # <<>> /\ Log[i].post.stack = Log[i].pre.stack
          /\ IsRead(Log[j]) /\ NodeV(Log[j]) = "a" /\ Log[j].res = "Ok"
          /\ IsRead(Log[k]) /\ NodeV(Log[k]) = "b" /\ Log[k].res = "Ok"
          /\ Top(Log[j].post.stack, 1) = Top(Log[i].pre.stack, 1)
          /\ Top(Log[k].post.stack, 1) = Top(Log[i].pre.stack, 1)

\* event e evaluates + on a stack of two values or more
IsAdd(e) == NodeT(e) = "ID" /\ NodeV(e) = "+" /\ Len(e.pre.stack) >= 2

\* the fraction an Int or Float value stands for
AsFraction(x) == IF x.k = "Int" THEN <<x.v, 1>> ELSE x.v

\* C6: + replaces a (below) and b (on top) by one value and leaves what is
\* beneath as it was: the Int a + b for two Ints; for two Floats or a mix of
\* Int and Float the Float whose value is the sum (operands finite); for two
\* Strings, or a String and a Char, the String a followed by b.  From an empty
\* stack, 2 3 + leaves Int 5, 2.0 3 + leaves Float 5.0 and "a" 'b' + leaves "ab".
C6_AddResults ==
    out.stage = "run" =>
        /\ \A i \in Events :
              LET e == Log[i]
                  a == Top(e.pre.stack, 2)
                  b == Top(e.pre.stack, 1)
                  rest == Below(e.pre.stack, 2)
                  r == Top(e.post.stack, 1)
              IN  IsAdd(e) =>
                    /\ (a.k = "Int" /\ b.k = "Int") =>
                          /\ e.res = "Ok"
                          /\ e.post.stack = Append(rest, [k |-> "Int", v |-> a.v + b.v])
                    /\ (/\ {a.k, b.k} \subseteq {"Int", "Float"}
                        /\ "Float" \in {a.k, b.k}
                        /\ AsFraction(a)[2] > 0 /\ AsFraction(b)[2] > 0) =>
                          /\ e.res = "Ok"
                          /\ e.post.stack = Append(rest, r)
                          /\ r.k = "Float"
                          /\ r.v[2] > 0
                          /\ r.v[1] * AsFraction(a)[2] * AsFraction(b)[2] =
                                (AsFraction(a)[1] * AsFraction(b)[2]
                                 + AsFraction(b)[1] * AsFraction(a)[2]) * r.v[2]
                    /\ (a.k = "String" /\ b.k \in {"String", "Char"}) =>
                          /\ e.res = "Ok"
                          /\ e.post.stack = Append(rest, [k |-> "String", v |-> a.v \o b.v])
        /\ (out.text = "2 3 +" /\ LinePre.stack = <<>>) =>
              stack = <<[k |-> "Int", v |-> 5]>>
        /\ (out.text = "2.0 3 +" /\ LinePre.stack = <<>>) =>
              stack = <<[k |-> "Float", v |-> <<5, 1>>]>>
        /\ (out.text = "\"a\" 'b' +" /\ LinePre.stack = <<>>) =>
              stack = <<[k |-> "String", v |-> "ab"]>>

\* + on a String with a String on top and other values beneath
C6_Witness ==
    /\ out.stage = "run"
    /\ \E i \in Events :
          /\ IsAdd(Log[i]) /\ Log[i].res = "Ok"
          /\ Len(Log[i].pre.stack) > 2
          /\ Top(Log[i].pre.stack, 2) = [k |-> "String", v |-> "abc"]
          /\ Top(Log[i].pre.stack, 1) = [k |-> "String", v |-> "a"]
          /\ Top(Log[i].post.stack, 1) = [k |-> "String", v |-> "abca"]

\* event j is the only call made by event i: it runs node from the state
\* `from`, and what it leaves is what i leaves
OnlyRuns(i, node, from) ==
    \E j \in Children(i) :
        /\ Children(i) = {j}
        /\ Log[j].node = node
        /\ Log[j].pre = from
        /\ Log[i].post = Log[j].post

\* the state of event e with the top of the stack popped
Popped(e) == [stack |-> Below(e.pre.stack, 1), vars |-> e.pre.vars]

\* C7: If pops one value; on true it evaluates the body and nothing else, on
\* false the else branch and nothing else if there is one, and nothing at all
\* otherwise.  From an empty stack, true if 1 else 2 end leaves Int 1 and
\* false if 1 else 2 end leaves Int 2.
C7_IfBranches ==
    out.stage = "run" =>
        /\ \A i \in Events :
              LET e == Log[i]
                  cond == Top(e.pre.stack, 1)
              IN  (NodeT(e) = "If" /\ e.pre.stack # <<>>) =>
                    IF cond.k # "Boolean"
                    THEN Children(i) = {} /\ e.post = Popped(e)
                    ELSE IF cond.v
                         THEN OnlyRuns(i, NodeV(e)[1], Popped(e))
                         ELSE IF NodeV(e)[2] # <<>>
                              THEN OnlyRuns(i, NodeV(e)[2][1], Popped(e))
                              ELSE Children(i) = {} /\ e.post = Popped(e)
        /\ (out.text = "true if 1 else 2 end" /\ LinePre.stack = <<>>) =>
              stack = <<[k |-> "Int", v |-> 1]>>
        /\ (out.text = "false if 1 else 2 end" /\ LinePre.stack = <<>>) =>
              stack = <<[k |-> "Int", v |-> 2]>>

\* an If with an else branch that found false on top of other values and ran
\* the else branch
C7_Witness ==
    /\ out.stage = "run"
    /\ \E i \in Events :
          /\ NodeT(Log[i]) = "If" /\ NodeV(Log[i])[2] # <<>>
          /\ Len(Log[i].pre.stack) > 1
          /\ Top(Log[i].pre.stack, 1) = [k |-> "Boolean", v |-> FALSE]
          /\ OnlyRuns(i, NodeV(Log[i])[2][1], Popped(Log[i]))
          /\ Log[i].post.stack = Append(Popped(Log[i]).stack, [k |-> "Int", v |-> 2])

\* event e is a Repeat that found an Int on top
IsRepeat(e) ==
    /\ NodeT(e) = "Repeat"
    /\ e.pre.stack # <<>>
    /\ Top(e.pre.stack, 1).k = "Int"

\* the call made by event i that comes last before its call j, if any
Previous(i, j) == {g \in Children(i) : g < j /\ \A h \in Children(i) : h < j => h <= g}

\* C8: Repeat pops one Int n and evaluates its body n times when n > 0 and
\* not at all when n <= 0; the first evaluation starts from the state with n
\* popped, each other from the state the one before left, and the state the
\* last one leaves is the state Repeat leaves (no evaluation aborting the
\* process).  From an empty stack, 3 repeat 1 end leaves Int 1, Int 1, Int 1.
C8_RepeatCount ==
    out.stage = "run" =>
        /\ \A i \in Events :
              LET e == Log[i]
                  n == Top(e.pre.stack, 1).v
              IN  (IsRepeat(e) /\ ~IsPanic(e.res)) =>
                    /\ Cardinality(Children(i)) = IF n > 0 THEN n ELSE 0
                    /\ \A j \in Children(i) :
                          /\ Log[j].node = NodeV(e)
                          /\ Log[j].pre = IF Previous(i, j) = {} THEN Popped(e)
                                          ELSE Log[CHOOSE g \in Previous(i, j) : TRUE].post
                          /\ (\A h \in Children(i) : h <= j) => e.post = Log[j].post
                    /\ Children(i) = {} => e.post = Popped(e)
        /\ (out.text = "3 repeat 1 end" /\ LinePre.stack = <<>>) =>
              stack = <<[k |-> "Int", v |-> 1], [k |-> "Int", v |-> 1], [k |-> "Int", v |-> 1]>>

\* a Repeat that found Int 2 on top of other values and ran its body twice,
\* the second time from the state the first left
C8_Witness ==
    /\ out.stage = "run"
    /\ \E i \in Events, j \in Events, k \in Events :
          /\ IsRepeat(Log[i]) /\ Top(Log[i].pre.stack, 1).v = 2
          /\ Len(Log[i].pre.stack) > 1
          /\ Children(i) = {j, k} /\ j < k
          /\ Log[j].pre = Popped(Log[i])
          /\ Log[k].pre = Log[j].post
          /\ Log[k].post # Log[j].post
          /\ Log[i].post = Log[k].post

\* a Repeat that found a count below zero and ran nothing
C8_WitnessNegative ==
    /\ out.stage = "run"
    /\ \E i \in Events :
          /\ IsRepeat(Log[i]) /\ Top(Log[i].pre.stack, 1).v < 0
          /\ Children(i) = {}
          /\ Log[i].post = Popped(Log[i])

\* C9: indexing a string of n > 0 characters with one Int i wraps modulo n
\* for every i: . replaces the string and i by the character at position
\* i mod n, so that index -k gives what index n - k gives for 1 <= k <= n.
C9_IndexWraps ==
    out.stage = "run" =>
        \A i \in Events :
            LET e == Log[i]
                s == Top(e.pre.stack, 2)
                idx == Top(e.pre.stack, 1)
            IN  (/\ NodeT(e) = "ID" /\ NodeV(e) = "."
                 /\ Len(e.pre.stack) >= 2
                 /\ s.k = "String" /\ idx.k = "Int"
                 /\ Len(s.v) > 0) =>
                    /\ e.res = "Ok"
                    /\ e.post.stack =
                          Append(Below(e.pre.stack, 2),
                                 [k |-> "Char", v |-> CharAt(s.v, (idx.v % Len(s.v)) + 1)])

\* the value each literal line stands for
Literals ==
    [text \in {"0", "1", "2", "3", "2.0", "2.5", "true", "false", "\"abc\"", "\"a\"", "'b'"} |->
        CASE text = "0" -> [k |-> "Int", v |-> 0]
          [] text = "1" -> [k |-> "Int", v |-> 1]
          [] text = "2" -> [k |-> "Int", v |-> 2]
          [] text = "3" -> [k |-> "Int", v |-> 3]
          [] text = "2.0" -> [k |-> "Float", v |-> <<2, 1>>]
          [] text = "2.5" -> [k |-> "Float", v |-> <<5, 2>>]
          [] text = "true" -> [k |-> "Boolean", v |-> TRUE]
          [] text = "false" -> [k |-> "Boolean", v |-> FALSE]
          [] text = "\"abc\"" -> [k |-> "String", v |-> "abc"]
          [] text = "\"a\"" -> [k |-> "String", v |-> "a"]
          [] text = "'b'" -> [k |-> "Char", v |-> "b"]]

NoMatch(e) ==
    /\ Len(e.res) >= 19
    /\ SubSeq(e.res, 1, 19) = "no macro definition"

\* the call of the event evaluated a registered name and dispatch selected an
\* implementation for it
Dispatched(e) ==
    /\ NodeT(e) = "ID"
    /\ NodeV(e) \in DOMAIN macros
    /\ ~NoMatch(e)

\* the stack holds at least as many values as types has types and, from the top
\* of the stack and the last type backward, each value has the type required
Fits(types, s) ==
    /\ Len(s) >= Len(types)
    /\ \A k \in 1 .. Len(types) :
          types[Len(types) + 1 - k] \in {"Any", s[Len(s) + 1 - k].k}

\* the implementation of `entry` run on the program before the event gives what
\* the event recorded
RanEntry(e, entry) ==
    /\ entry.macro_type.kind = "Operation"
    /\ LET r == Call(entry.macro_type.f, ProgramOf(e.pre.stack, e.pre.vars, macros))
       IN  /\ e.res = r.res
           /\ e.post = [stack |-> r.stack, vars |-> r.vars]

\* C11: an implementation registered under an operation name is invoked only
\* on a stack that fits the signature it is registered with: the stack is at
\* least as long as the signature and, from the top of the stack and the last
\* type backward, every value has the required type (Any fits every value).
C11_DispatchPrecondition ==
    out.stage = "run" =>
        \A i \in Events :
            Dispatched(Log[i]) =>
                \E j \in 1 .. Len(macros[NodeV(Log[i])]) :
                    /\ Fits(macros[NodeV(Log[i])][j].types, Log[i].pre.stack)
                    /\ RanEntry(Log[i], macros[NodeV(Log[i])][j])

\* + was dispatched on a stack of three values that fits (Int, Float) and no
\* other signature of +
C11_Witness ==
    /\ out.stage = "run"
    /\ \E i \in Events :
          /\ Dispatched(Log[i])
          /\ NodeV(Log[i]) = "+"
          /\ Len(Log[i].pre.stack) = 3
          /\ Top(Log[i].pre.stack, 1).k = "Float"
          /\ Top(Log[i].pre.stack, 2).k = "Int"
          /\ Log[i].res = "Ok"

\* the tokens of the last line
LineTokens == lex(out.text).tokens

\* what a reading of tokens from the i-th on finds, open being the constructs
\* open so far, the innermost last ("if" for the first body of an If, "else"
\* for its else body, "repeat" for a Repeat body): "stray" at an End with
\* nothing open or an Else that does not end the first body of the innermost
\* open If, "unclosed" at the end of the tokens with a construct still open,
\* "closed" otherwise
RECURSIVE Blocks(_, _, _)
Blocks(tokens, i, open) ==
    IF i > Len(tokens) THEN (IF open = <<>> THEN "closed" ELSE "unclosed")
    ELSE CASE tokens[i].instr.t = "If" -> Blocks(tokens, i + 1, Append(open, "if"))
           [] tokens[i].instr.t = "Repeat" -> Blocks(tokens, i + 1, Append(open, "repeat"))
           [] tokens[i].instr.t = "End" ->
                 IF open = <<>> THEN "stray"
                 ELSE Blocks(tokens, i + 1, SubSeq(open, 1, Len(open) - 1))
           [] tokens[i].instr.t = "Else" ->
                 IF open # <<>> /\ open[Len(open)] = "if"
                 THEN Blocks(tokens, i + 1, [open EXCEPT ![Len(open)] = "else"])
                 ELSE "stray"
           [] OTHER -> Blocks(tokens, i + 1, open)

\* C12: a line whose tokens hold an End or an Else outside an active If or
\* Repeat (an End with nothing open; an Else at top level, in a Repeat body,
\* after the End that closed an If, or a second Else of one If) fails in
\* parse with the error "unexpected".
C12_StrayEndElseUnexpected ==
    (out.stage \in {"parse", "run"} /\ Blocks(LineTokens, 1, <<>>) = "stray") =>
        (out.stage = "parse" /\ out.res = "unexpected")

\* C13: a line in which an If (its first body or its else body) or a Repeat
\* body reaches the end of the tokens without its End fails in parse: parse
\* succeeds only when every If and Repeat opened is closed by an End.
C13_UnclosedBlockFails ==
    (out.stage \in {"parse", "run"} /\ Blocks(LineTokens, 1, <<>>) = "unclosed") =>
        out.stage = "parse"

\* C14: whenever dispatch selects a native for the current stack, the native
\* runs to completion and returns Ok, whatever the values of the accepted
\* types are (any Int, 0 and the negative ones included, any String).
C14_DispatchedNativeReturnsOk ==
    out.stage = "run" =>
        \A i \in Events : Dispatched(Log[i]) => Log[i].res = "Ok"

\* the names of the lines that are one Take, in the order written
TakeLines ==
    [text \in {"(x)", "(x y)", "(x x)"} |->
        CASE text = "(x)" -> <<"x">>
          [] text = "(x y)" -> <<"x", "y">>
          [] text = "(x x)" -> <<"x", "x">>]

\* a Take of the names ns, listed in the order written, took the program from
\* pre to post: the top Len(ns) values are gone, each name is bound to the
\* value at its position (the last name to the former top), a name written
\* twice to the value of its first occurrence, which is bound last, and the
\* other variables are as they were
TookByPosition(ns, pre, post) ==
    /\ post.stack = SubSeq(pre.stack, 1, Len(pre.stack) - Len(ns))
    /\ DOMAIN post.vars = DOMAIN pre.vars \cup {ns[j] : j \in 1 .. Len(ns)}
    /\ \A j \in 1 .. Len(ns) :
          (\A h \in 1 .. j - 1 : ns[h] # ns[j]) =>
              post.vars[ns[j]] = pre.stack[Len(pre.stack) - Len(ns) + j]
    /\ \A x \in DOMAIN pre.vars :
          (\A j \in 1 .. Len(ns) : ns[j] # x) => post.vars[x] = pre.vars[x]

\* C15: Take binds names to stack values by position.  The line (n1 ... nk)
\* on a stack of at least k values returns Ok, removes exactly the top k
\* values, binds nk to the former top, n(k-1) to the value below it, down to
\* n1 bound to the k-th value from the top; the values beneath and the other
\* variables are unchanged, and of two bindings of one name the later one
\* stays.  So does every evaluation of a Take node, whose names are stored in
\* the reverse of the order written.
C15_TakeBindsByPosition ==
    /\ (out.text \in DOMAIN TakeLines /\ Len(LinePre.stack) >= Len(TakeLines[out.text])) =>
          /\ out.stage = "run"
          /\ out.res = "Ok"
          /\ TookByPosition(TakeLines[out.text], LinePre, [stack |-> stack, vars |-> vars])
    /\ out.stage = "run" =>
          \A i \in Events :
              (NodeT(Log[i]) = "Take" /\ Len(Log[i].pre.stack) >= Len(NodeV(Log[i]))) =>
                  /\ Log[i].res = "Ok"
                  /\ TookByPosition(Reverse(NodeV(Log[i])), Log[i].pre, Log[i].post)

\* the line (x y) run on the stack 1 2 3: 1 is left, x is 2 and y is 3
C15_Witness ==
    /\ out.text = "(x y)"
    /\ out.stage = "run"
    /\ LinePre.stack = <<[k |-> "Int", v |-> 1], [k |-> "Int", v |-> 2], [k |-> "Int", v |-> 3]>>
    /\ stack = <<[k |-> "Int", v |-> 1]>>
    /\ vars["x"] = [k |-> "Int", v |-> 2]
    /\ vars["y"] = [k |-> "Int", v |-> 3]

\* the line (x x) run on the stack 1 2 3: x is 2, the value bound last
C15_WitnessTwice ==
    /\ out.text = "(x x)"
    /\ out.stage = "run"
    /\ LinePre.stack = <<[k |-> "Int", v |-> 1], [k |-> "Int", v |-> 2], [k |-> "Int", v |-> 3]>>
    /\ stack = <<[k |-> "Int", v |-> 1]>>
    /\ vars["x"] = [k |-> "Int", v |-> 2]

\* the call of the event evaluated the copy of a bare identifier
IsCopyOfID(e) == NodeT(e) = "Copy" /\ NodeV(e).instr.t = "ID"

\* C16: the copy @x of a bare identifier x pushes a clone of the value of x
\* and keeps the binding when x is bound, so that it can be repeated; when x
\* is not bound it fails, with "cannot copy a macro" if x names a registered
\* operation and with "unknown id" otherwise, and then the stack and the
\* variable table are unchanged.
C16_CopyOfIdentifier ==
    out.stage = "run" =>
        /\ \A i \in Events :
              IsCopyOfID(Log[i]) =>
                  IF NodeV(Log[i]).instr.v \in DOMAIN Log[i].pre.vars
                  THEN /\ Log[i].res = "Ok"
                       /\ Log[i].post.stack =
                             Append(Log[i].pre.stack, Log[i].pre.vars[NodeV(Log[i]).instr.v])
                       /\ Log[i].post.vars = Log[i].pre.vars
                  ELSE /\ Log[i].res = (IF NodeV(Log[i]).instr.v \in DOMAIN macros
                                        THEN "cannot copy a macro" ELSE "unknown id")
                       /\ Log[i].post = Log[i].pre
        /\ out.text = "5 (x) @x @x" =>
              /\ out.res = "Ok"
              /\ stack = LinePre.stack \o <<[k |-> "Int", v |-> 5], [k |-> "Int", v |-> 5]>>
              /\ vars = [y \in DOMAIN LinePre.vars \cup {"x"} |->
                            IF y = "x" THEN [k |-> "Int", v |-> 5] ELSE LinePre.vars[y]]

\* x was copied twice in one line, on a stack that was not empty
C16_Witness ==
    /\ out.text = "5 (x) @x @x"
    /\ out.stage = "run"
    /\ LinePre.stack # <<>>
    /\ Cardinality({i \in Events : IsCopyOfID(Log[i]) /\ Log[i].res = "Ok"}) = 2

\* the copy of a registered name failed on a stack that was not empty with a
\* variable bound
C16_WitnessMacro ==
    /\ out.text = "@len"
    /\ out.stage = "run"
    /\ out.res = "cannot copy a macro"
    /\ stack # <<>>
    /\ DOMAIN vars # {}

\* the line that shows a signature under a name: the types in brackets, by
\* the names Type is printed with, then the name
SignatureLine(types, id) ==
    LET shown == [t \in {"Any", "String", "Char", "Int", "Float", "Boolean"} |->
                     CASE t = "Any" -> "any" [] t = "String" -> "str"
                       [] t = "Char" -> "char" [] t = "Int" -> "int"
                       [] t = "Float" -> "float" [] t = "Boolean" -> "bool"]
        RECURSIVE Spaced(_)
        Spaced(ts) == IF ts = <<>> THEN ""
                      ELSE IF Len(ts) = 1 THEN shown[ts[1]]
                      ELSE shown[ts[1]] \o " " \o Spaced(Tail(ts))
    IN  "[" \o Spaced(types) \o "] " \o id \o "\n"

\* whether the string sub occurs in the string s
Occurs(sub, s) ==
    \E i \in 1 .. Len(s) - Len(sub) + 1 : SubSeq(s, i, i + Len(sub) - 1) = sub

\* the call of the event evaluated a registered name on a stack that none of
\* the signatures registered under the name fits
Unmatched(e) ==
    /\ NodeT(e) = "ID"
    /\ NodeV(e) \in DOMAIN macros
    /\ \A j \in 1 .. Len(macros[NodeV(e)]) : ~Fits(macros[NodeV(e)][j].types, e.pre.stack)

\* C17: the evaluation of a registered name on a stack that no registered
\* signature fits (too few values or values of other types) fails with the
\* error of a dispatch without match, whose message lists every signature
\* registered under the name, and leaves the stack and the variable table
\* as they were.
C17_NoMatchListsSignatures ==
    out.stage = "run" =>
        \A i \in Events :
            Unmatched(Log[i]) =>
                /\ NoMatch(Log[i])
                /\ \A j \in 1 .. Len(macros[NodeV(Log[i])]) :
                      Occurs(SignatureLine(macros[NodeV(Log[i])][j].types, NodeV(Log[i])),
                             Log[i].res)
                /\ Log[i].post = Log[i].pre

\* . failed on two Ints, with a variable bound: the values are of other types
C17_Witness ==
    /\ out.stage = "run"
    /\ \E i \in Events :
          /\ Unmatched(Log[i])
          /\ NodeV(Log[i]) = "."
          /\ Len(Log[i].pre.stack) >= 2
          /\ DOMAIN Log[i].pre.vars # {}
          /\ Occurs("[str int int] .\n", Log[i].res)
          /\ Occurs("[str int] .\n", Log[i].res)

\* + failed on a stack of one value: too few values
C17_WitnessTooFew ==
    /\ out.stage = "run"
    /\ \E i \in Events :
          /\ Unmatched(Log[i])
          /\ NodeV(Log[i]) = "+"
          /\ Len(Log[i].pre.stack) = 1
          /\ Occurs("[str char] +\n", Log[i].res)

\* the call of the event evaluated an If or a Repeat on a stack whose top is
\* not of the type it takes: If on a value that is no Boolean, Repeat on a
\* value that is no Int
WrongOperand(e) ==
    /\ e.pre.stack # <<>>
    /\ \/ NodeT(e) = "If" /\ e.pre.stack[Len(e.pre.stack)].k # "Boolean"
       \/ NodeT(e) = "Repeat" /\ e.pre.stack[Len(e.pre.stack)].k # "Int"

\* C18: an If evaluated with a value that is no Boolean on top of the stack,
\* and a Repeat evaluated with a value that is no Int on top, return an error
\* and evaluate no part of their body or else body; a line that is that If or
\* Repeat returns the error.
C18_WrongOperandIsFatal ==
    out.stage = "run" =>
        /\ \A i \in Events :
              WrongOperand(Log[i]) => (Failed(Log[i]) /\ Inside(i) = {})
        /\ (/\ out.text \in {"if 1 end", "if 1 else 2 end", "repeat 1 end"}
            /\ WrongOperand(Log[Len(Log) - 1])) =>
              (Len(Log) = 2 /\ out.res = Log[1].res /\ Failed(Log[1]))

\* the line if 1 else 2 end failed on a stack with an Int on top
C18_Witness ==
    /\ out.text = "if 1 else 2 end"
    /\ out.stage = "run"
    /\ WrongOperand(Log[1])
    /\ LinePre.stack[Len(LinePre.stack)].k = "Int"
    /\ Failed(Log[1])

\* the line repeat 1 end failed on a stack with a Boolean on top
C18_WitnessRepeat ==
    /\ out.text = "repeat 1 end"
    /\ out.stage = "run"
    /\ WrongOperand(Log[1])
    /\ LinePre.stack[Len(LinePre.stack)].k = "Boolean"
    /\ Failed(Log[1])

\* the h-th of the calls made directly by the call of event j, in the order
\* they were made
Child(j, h) == CHOOSE i \in Children(j) : Cardinality({x \in Children(j) : x < i}) = h - 1

\* C19: a Chunk evaluates its children from left to right, the first on the
\* state the Chunk started from and each other on the state the one before
\* left; a child that does not return Ok is the last one evaluated and what
\* it returned is what the Chunk returns; when every child returned Ok all
\* of them were evaluated and the Chunk returns Ok with the state the last
\* one left.
C19_ChunkInOrderFailFast ==
    out.stage = "run" =>
        \A j \in Events :
            NodeT(Log[j]) = "Chunk" =>
                LET n == Cardinality(Children(j))
                IN  /\ n <= Len(NodeV(Log[j]))
                    /\ \A h \in 1 .. n :
                          /\ Log[Child(j, h)].node = NodeV(Log[j])[h]
                          /\ Log[Child(j, h)].pre =
                                (IF h = 1 THEN Log[j].pre ELSE Log[Child(j, h - 1)].post)
                          /\ h < n => Log[Child(j, h)].res = "Ok"
                    /\ IF n = 0
                       THEN /\ NodeV(Log[j]) = <<>>
                            /\ Log[j].res = "Ok"
                            /\ Log[j].post = Log[j].pre
                       ELSE /\ Log[j].res = Log[Child(j, n)].res
                            /\ Log[j].post = Log[Child(j, n)].post
                            /\ n < Len(NodeV(Log[j])) => Log[Child(j, n)].res # "Ok"

\* a Chunk of three children stopped at the second, which returned an error
C19_Witness ==
    /\ out.stage = "run"
    /\ \E j \in Events :
          /\ NodeT(Log[j]) = "Chunk"
          /\ Len(NodeV(Log[j])) = 3
          /\ Cardinality(Children(j)) = 2
          /\ Failed(Log[Child(j, 2)])
          /\ Log[j].res = Log[Child(j, 2)].res
          /\ Log[j].pre.stack # <<>>

\* a Chunk of four children evaluated them all, each on what the one before left
C19_WitnessAll ==
    /\ out.stage = "run"
    /\ \E j \in Events :
          /\ NodeT(Log[j]) = "Chunk"
          /\ Len(NodeV(Log[j])) = 4
          /\ Cardinality(Children(j)) = 4
          /\ Log[j].res = "Ok"

\* every stack of at most three values, by the types of its values: no
\* signature of std_program has more than three types
KindStacks ==
    UNION {[1 .. n -> {[k |-> x] : x \in {"String", "Char", "Int", "Float", "Boolean"}}] :
              n \in 0 .. 3}

\* the signatures registered under name that fit the stack s
Fitting(name, s) == {j \in 1 .. Len(macros[name]) : Fits(macros[name][j].types, s)}

\* C20: with std_program no two signatures registered under one name fit the
\* same stack (checked on the registry as std_program makes it, for every
\* name and the types of up to three topmost values, and on the stack of
\* every dispatch), so dispatch selects the same implementation whatever the
\* order the candidates are scanned in: the tree of the line, run from the
\* state the line started from under any iteration order, ends in the same
\* stack and variable table.
C20_DispatchIsDeterministic ==
    /\ out.stage = "init" =>
          \A name \in DOMAIN macros :
              \A s \in KindStacks : Cardinality(Fitting(name, s)) <= 1
    /\ out.stage = "run" =>
        /\ \A i \in Events :
              (NodeT(Log[i]) = "ID" /\ NodeV(Log[i]) \in DOMAIN macros) =>
                  Cardinality(Fitting(NodeV(Log[i]), Log[i].pre.stack)) <= 1
        /\ \A seed \in Seeds :
              LET r == run(Front[out.text].node[1],
                           ProgramOf(LinePre.stack, LinePre.vars, macros), seed, 0)
              IN  r.stack = stack /\ r.vars = vars

\* the line 3 2.5 + added an Int and a Float, the third of the six signatures
\* of +, on a stack that was not empty
C20_Witness ==
    /\ out.text = "3 2.5 +"
    /\ out.stage = "run"
    /\ out.res = "Ok"
    /\ Len(macros["+"]) = 6
    /\ Fitting("+", Log[3].pre.stack) = {3}
    /\ LinePre.stack # <<>>
    /\ stack = Append(LinePre.stack, [k |-> "Float", v |-> <<11, 2>>])

(***************************************************************************)
(* Operations on their operands (SpecOps).                                 *)
(***************************************************************************)
\* the event is the evaluation of the bare identifier `id`
IsOp(e, id) == NodeT(e) = "ID" /\ NodeV(e) = id

\* the value k places below the top of the stack before the event (0: the top)
Operand(e, k) == e.pre.stack[Len(e.pre.stack) - k]

\* the stack before the event without its n topmost values
Beneath(e, n) == SubSeq(e.pre.stack, 1, Len(e.pre.stack) - n)

\* C21: range indexing is half-open: for a non-empty String s of n characters
\* and Ints start, end with 0 <= start <= end <= n on top of the stack, `.`
\* returns Ok and replaces the three operands by the substring of s from
\* position start (inclusive) to position end (exclusive), of length
\* end - start.
C21_RangeIsHalfOpen ==
    \A i \in Events :
        (/\ IsOp(Log[i], ".")
         /\ Len(Log[i].pre.stack) >= 3
         /\ Operand(Log[i], 2).k = "String"
         /\ Operand(Log[i], 1).k = "Int"
         /\ Operand(Log[i], 0).k = "Int"
         /\ 0 <= Operand(Log[i], 1).v
         /\ Operand(Log[i], 1).v <= Operand(Log[i], 0).v
         /\ Operand(Log[i], 0).v <= Len(Operand(Log[i], 2).v)
         /\ Len(Operand(Log[i], 2).v) > 0)
        => /\ Log[i].res = "Ok"
           /\ Log[i].post.stack =
                 Append(Beneath(Log[i], 3),
                        ValueString(SubSeq(Operand(Log[i], 2).v,
                                           Operand(Log[i], 1).v + 1,
                                           Operand(Log[i], 0).v)))

(***************************************************************************)
(* MacroOverload::def (SpecDef).                                           *)
(***************************************************************************)
\* the set holds a candidate with exactly this type list and implementation
Holds(set, types, macro_type) ==
    \E j \in 1 .. Len(set) : set[j].types = types /\ set[j].macro_type = macro_type

\* C22: def with a type list that differs from every list registered in the
\* set adds a new candidate, and every candidate registered under another
\* list stays registered with its implementation: an implementation is
\* replaced only when exactly the same list is registered again.  A set can
\* so hold both (Any, Any) and (Int, Int).
C22_DefKeepsDistinctLists ==
    out.stage = "def" =>
        /\ Holds(macros[out.text], out.log[1].args, Operation(out.log[1].f))
        /\ \A i \in 1 .. Len(out.log[1].pre) :
              out.log[1].pre[i].types # out.log[1].args =>
                  Holds(macros[out.text], out.log[1].pre[i].types,
                        out.log[1].pre[i].macro_type)
        /\ (\A i \in 1 .. Len(out.log[1].pre) : out.log[1].pre[i].types # out.log[1].args)
              => Len(macros[out.text]) = Len(out.log[1].pre) + 1

(***************************************************************************)
(* Termination, shadowing, the registry (Spec).                            *)
(***************************************************************************)
\* the same node of the tree: the same place, kind and content
SameNode(a, b) == a.pos = b.pos /\ a.node.t = b.node.t /\ a.node.v = b.node.v

\* the call of event e may call run on node n: n is written in the node of e
SubNode(e, n) ==
    CASE NodeT(e) = "Chunk" -> \E k \in 1 .. Len(NodeV(e)) : SameNode(n, NodeV(e)[k])
      [] NodeT(e) = "If" ->
            \/ SameNode(n, NodeV(e)[1])
            \/ \E k \in 1 .. Len(NodeV(e)[2]) : SameNode(n, NodeV(e)[2][k])
      [] NodeT(e) = "Repeat" -> SameNode(n, NodeV(e))
      [] OTHER -> FALSE

\* how many calls of run a call on this node may make
CallBound(e) ==
    CASE NodeT(e) = "Chunk" -> Len(NodeV(e))
      [] NodeT(e) = "If" -> 1
      [] NodeT(e) = "Repeat" ->
            IF IsRepeat(e) /\ Top(e.pre.stack, 1).v > 0 THEN Top(e.pre.stack, 1).v ELSE 0
      [] OTHER -> 0

\* C23: with std_program no operation is registered with a nested body, so
\* the evaluation of an identifier makes no call of run; every call of run
\* is made on a node written inside the node of the calling evaluation, and
\* an evaluation makes at most as many calls as its node has nodes (Chunk),
\* one (If), or the Int count it popped (Repeat): the number of steps is
\* bounded by the tree and the counts.
C23_RunTerminates ==
    /\ \A id \in DOMAIN macros :
          \A j \in 1 .. Len(macros[id]) : macros[id][j].macro_type.kind = "Operation"
    /\ out.stage = "run" =>
          \A i \in Events :
              /\ Cardinality(Children(i)) <= CallBound(Log[i])
              /\ \A j \in Children(i) : SubNode(Log[i], Log[j].node)
              /\ NodeT(Log[i]) = "ID" => Inside(i) = {}

\* a Repeat that ran its body three times, an operation being dispatched and
\* returning Ok in it
C23_Witness ==
    /\ out.stage = "run"
    /\ \E i \in Events, h \in Events :
          /\ NodeT(Log[i]) = "Repeat"
          /\ Cardinality(Children(i)) = 3
          /\ h \in Inside(i)
          /\ Dispatched(Log[h])
          /\ Log[h].res = "Ok"

\* the event is the evaluation of a bare identifier that names both a
\* registered operation and a bound variable
ShadowedID(e) ==
    /\ NodeT(e) = "ID"
    /\ NodeV(e) \in DOMAIN macros
    /\ NodeV(e) \in DOMAIN e.pre.vars

\* the event is the evaluation of Copy of such an identifier
ShadowedCopy(e) ==
    /\ NodeT(e) = "Copy"
    /\ NodeV(e).instr.t = "ID"
    /\ NodeV(e).instr.v \in DOMAIN macros
    /\ NodeV(e).instr.v \in DOMAIN e.pre.vars

\* C24: when a variable is bound under the name of a registered operation, a
\* bare identifier of that name dispatches the operation (it runs an
\* implementation registered under the name, or fails with the no-match
\* error) and leaves the variable table as it was, while Copy of the name
\* returns Ok and pushes the variable's value, the table unchanged.
C24_OperationsShadowVariables ==
    out.stage = "run" =>
        \A i \in Events :
            /\ ShadowedID(Log[i]) =>
                  /\ Log[i].post.vars = Log[i].pre.vars
                  /\ \/ NoMatch(Log[i]) /\ Log[i].post = Log[i].pre
                     \/ \E j \in 1 .. Len(macros[NodeV(Log[i])]) :
                           RanEntry(Log[i], macros[NodeV(Log[i])][j])
            /\ ShadowedCopy(Log[i]) =>
                  /\ Log[i].res = "Ok"
                  /\ Log[i].post.vars = Log[i].pre.vars
                  /\ Log[i].post.stack =
                        Append(Log[i].pre.stack, Log[i].pre.vars[NodeV(Log[i]).instr.v])

\* len was evaluated with a variable bound under len and a String on top of
\* the stack: it replaced the String by its length and the variable stayed
C24_Witness ==
    /\ out.stage = "run"
    /\ \E i \in Events :
          /\ ShadowedID(Log[i])
          /\ NodeV(Log[i]) = "len"
          /\ Log[i].res = "Ok"
          /\ Log[i].post.stack = <<ValueInt(3)>>
          /\ "len" \in DOMAIN vars

\* @len was evaluated with a variable bound under len and pushed its value
C24_WitnessCopy ==
    /\ out.stage = "run"
    /\ \E i \in Events :
          /\ ShadowedCopy(Log[i])
          /\ Log[i].res = "Ok"
          /\ Len(Log[i].post.stack) = Len(Log[i].pre.stack) + 1

\* the event is the evaluation of Copy of a name list whose names are all bound
CopyOfList(e) ==
    /\ NodeT(e) = "Copy"
    /\ NodeV(e).instr.t = "CopyTo"
    /\ \A k \in 1 .. Len(NodeV(e).instr.v) : NodeV(e).instr.v[k] \in DOMAIN e.pre.vars

\* C25: Copy of a name list returns Ok and pushes one clone per name of the
\* node's list, from the last name of the list to the first, so the value of
\* the first name of the list ends on top; the variable table is unchanged.
\* The lexer stores the names of {...} reversed: for the source @{a b} the
\* list of the node is (b, a), and the value of a is pushed before that of b.
C25_CopyOfNameList ==
    out.stage = "run" =>
        \A i \in Events :
            /\ CopyOfList(Log[i]) =>
                  /\ Log[i].res = "Ok"
                  /\ Log[i].post.vars = Log[i].pre.vars
                  /\ Log[i].post.stack =
                        Log[i].pre.stack \o
                        [k \in 1 .. Len(NodeV(Log[i]).instr.v) |->
                            Log[i].pre.vars[NodeV(Log[i]).instr.v[
                                Len(NodeV(Log[i]).instr.v) + 1 - k]]]
            /\ (NodeT(Log[i]) = "Copy" /\ out.text = "@{a b}") =>
                  NodeV(Log[i]).instr.v = <<"b", "a">>
            /\ (CopyOfList(Log[i]) /\ out.text = "1 2 (x y) @{x y}") =>
                  /\ NodeV(Log[i]).instr.v = <<"y", "x">>
                  /\ Log[i].post.stack =
                        Append(Append(Log[i].pre.stack, Log[i].pre.vars["x"]),
                               Log[i].pre.vars["y"])

\* @{x y} was evaluated with x and y bound to different values and pushed
\* the value of x, then the value of y
C25_Witness ==
    /\ out.stage = "run"
    /\ out.text = "1 2 (x y) @{x y}"
    /\ \E i \in Events :
          /\ CopyOfList(Log[i])
          /\ Log[i].pre.vars["x"] # Log[i].pre.vars["y"]
          /\ Log[i].post.stack = Log[i].pre.stack \o <<Log[i].pre.vars["x"], Log[i].pre.vars["y"]>>

\* the event is the evaluation of one of `names` on two numbers
OnNumbers(e, names) ==
    /\ NodeT(e) = "ID"
    /\ NodeV(e) \in names
    /\ Len(e.pre.stack) >= 2
    /\ Operand(e, 1).k \in {"Int", "Float"}
    /\ Operand(e, 0).k \in {"Int", "Float"}

\* C26: for each of + - * / % the type of the result follows the types of
\* the operands: when the operation returns Ok on two numbers, what it
\* pushed in their place is an Int if both are Ints and a Float if both are
\* Floats or one is an Int and the other a Float, in either order.
C26_ArithmeticResultType ==
    \A i \in Events :
        (OnNumbers(Log[i], {"+", "-", "*", "/", "%"}) /\ Log[i].res = "Ok") =>
            /\ Len(Log[i].post.stack) = Len(Log[i].pre.stack) - 1
            /\ Top(Log[i].post.stack, 1).k =
                  IF Operand(Log[i], 1).k = "Int" /\ Operand(Log[i], 0).k = "Int"
                  THEN "Int" ELSE "Float"

\* a number as numerator over denominator, the denominator positive
Num(x) == IF x.k = "Int" THEN x.v ELSE x.v[1]
Den(x) == IF x.k = "Int" THEN 1 ELSE x.v[2]

\* a < b and a = b on numbers, by cross-multiplication
Less(a, b) == Num(a) * Den(b) < Num(b) * Den(a)
Same(a, b) == Num(a) * Den(b) = Num(b) * Den(a)

\* r = a - b, r = a / b (b not zero), and r = a % b (b not zero): a - r is a
\* whole multiple of b, r is smaller than b in magnitude and has the sign of a
IsDifference(r, a, b) ==
    Num(r) * Den(a) * Den(b) = (Num(a) * Den(b) - Num(b) * Den(a)) * Den(r)
IsQuotient(r, a, b) == Num(r) * Den(a) * Num(b) = Num(a) * Den(b) * Den(r)
IsRemainder(r, a, b) ==
    /\ Abs((Num(a) * Den(r) - Num(r) * Den(a)) * Den(b))
          % Abs(Den(a) * Den(r) * Num(b)) = 0
    /\ Abs(Num(r)) * Den(b) < Abs(Num(b)) * Den(r)
    /\ Num(r) * Num(a) >= 0

\* what the operation `id` pushes on left operand a and right operand b
IsResult(id, r, a, b) ==
    CASE id = "-" -> r.k \in {"Int", "Float"} /\ IsDifference(r, a, b)
      [] id = "/" -> r.k \in {"Int", "Float"} /\ IsQuotient(r, a, b)
      [] id = "%" -> r.k \in {"Int", "Float"} /\ IsRemainder(r, a, b)
      [] id = "<" -> r = ValueBoolean(Less(a, b))
      [] id = ">" -> r = ValueBoolean(Less(b, a))
      [] id = "<=" -> r = ValueBoolean(Less(a, b) \/ Same(a, b))
      [] id = ">=" -> r = ValueBoolean(Less(b, a) \/ Same(a, b))

\* C27: for - / % < > <= >= the left operand is the value second from the
\* top and the right operand is the top of the stack: on two numbers a, b
\* (b not zero for / and %), Ints or Floats in any combination, the operation
\* returns Ok, removes both and pushes a - b, a / b, a % b or the Boolean of
\* the comparison of a with b; the values beneath are unchanged.
C27_LeftOperandIsBelowTheTop ==
    \A i \in Events :
        (/\ OnNumbers(Log[i], {"-", "/", "%", "<", ">", "<=", ">="})
         /\ NodeV(Log[i]) \in {"/", "%"} => Num(Operand(Log[i], 0)) # 0)
        => /\ Log[i].res = "Ok"
           /\ Len(Log[i].post.stack) = Len(Log[i].pre.stack) - 1
           /\ Below(Log[i].post.stack, 1) = Beneath(Log[i], 2)
           /\ IsResult(NodeV(Log[i]), Top(Log[i].post.stack, 1),
                       Operand(Log[i], 1), Operand(Log[i], 0))

\* the value is the Int n; the value is the Float of fraction f
IsInt(x, n) == x.k = "Int" /\ x.v = n
IsFloat(x, f) == x.k = "Float" /\ x.v = f

\* < was evaluated on Int 3 and Float 2.5 above another value and pushed false
C27_Witness ==
    \E i \in Events :
        /\ IsOp(Log[i], "<")
        /\ Len(Log[i].pre.stack) = 3
        /\ IsInt(Operand(Log[i], 1), 3)
        /\ IsFloat(Operand(Log[i], 0), Frac(5, 2))
        /\ Len(Log[i].post.stack) = 2
        /\ Log[i].post.stack[1] = Log[i].pre.stack[1]
        /\ Log[i].post.stack[2].k = "Boolean"
        /\ ~Log[i].post.stack[2].v

\* - was evaluated on Float 2.5 and Int 3 and pushed Float -0.5
C27_WitnessMinus ==
    \E i \in Events :
        /\ IsOp(Log[i], "-")
        /\ Len(Log[i].pre.stack) >= 2
        /\ IsFloat(Operand(Log[i], 1), Frac(5, 2))
        /\ IsInt(Operand(Log[i], 0), 3)
        /\ IsFloat(Top(Log[i].post.stack, 1), Frac(0 - 1, 2))

\* C28: run never changes the dispatch registry: after any sequence of lines
\* run on the program made by std_program, whether they returned Ok, failed
\* or were rejected before running, the registered names and the signatures
\* and implementations under each name are those registered at construction.
C28_RegistryUnchanged == macros = std_macros

\* a line failed in run after an earlier line had run and left values on the
\* stack, and the registry is the one of std_program
C28_Witness ==
    /\ out.stage = "run"
    /\ Failed(out)
    /\ LinePre.stack # <<>>
    /\ stack # LinePre.stack
    /\ macros = std_macros

\* C29: every signature registered with std_program is handled by a regular
\* arm of its native: whenever dispatch accepts the stack for a name, the
\* native selected neither reaches its `type checking error!!!` arm nor
\* unwraps a pop from an empty stack.  (It may still abort on the values of
\* its operands, as % does on a zero divisor.)
C29_RegisteredSignaturesAreHandled ==
    \A i \in Events :
        Dispatched(Log[i]) =>
            Log[i].res \notin {"Panic: type checking error!!!", "Panic: unwrap on None"}

\* + was dispatched on a String and a Char above another value, under the
\* signature (String, Char), and returned Ok
C29_Witness ==
    \E i \in Events :
        /\ IsOp(Log[i], "+")
        /\ Dispatched(Log[i])
        /\ Len(Log[i].pre.stack) = 3
        /\ Operand(Log[i], 1).k = "String"
        /\ Operand(Log[i], 0).k = "Char"
        /\ Log[i].res = "Ok"

\* % was dispatched on two Ints and aborted on the zero divisor
C29_WitnessValuePanic ==
    \E i \in Events :
        /\ IsOp(Log[i], "%")
        /\ Dispatched(Log[i])
        /\ Log[i].res = "Panic: remainder by zero"

(***************************************************************************)
(* The reserved symbols (Spec).                                            *)
(***************************************************************************)
\* the text holds none of the seven reserved symbols
Plain(id) == \A k \in 1 .. Len(id) : CharAt(id, k) \notin SYMBOLS

\* the identifiers of the token, written alone, in a name list or after @,
\* hold no reserved symbol
PlainToken(token) ==
    CASE token.instr.t = "ID" -> Plain(token.instr.v)
      [] token.instr.t \in {"Take", "CopyTo"} ->
            \A k \in 1 .. Len(token.instr.v) : Plain(token.instr.v[k])
      [] token.instr.t = "Copy" ->
            token.instr.v.instr.t = "ID" => Plain(token.instr.v.instr.v)
      [] OTHER -> TRUE

\* C30: the seven reserved symbols " ' ( ) { } @ always end a token: in every
\* token sequence lex returns, no identifier holds one of them, so a reserved
\* symbol of the input is never taken into a bare run.
C30_SymbolsEndTokens ==
    out.stage \in {"parse", "run"} =>
        \A k \in 1 .. Len(LineTokens) : PlainToken(LineTokens[k])

(***************************************************************************)
(* Positions (Spec).                                                       *)
(***************************************************************************)
\* each of the three ranges of the Position covers at least one unit
Covers(pos) == pos.idx[2] > pos.idx[1] /\ pos.ln[2] > pos.ln[1] /\ pos.col[2] > pos.col[1]

\* no end bound of inner lies beyond the end bound of outer: extending outer
\* by inner moved no end bound backward
Reaches(outer, inner) ==
    /\ outer.idx[2] >= inner.idx[2]
    /\ outer.ln[2] >= inner.ln[2]
    /\ outer.col[2] >= inner.col[2]

\* the nodes written directly in a composite node
Parts(node) ==
    CASE node.node.t = "Chunk" -> node.node.v
      [] node.node.t = "If" -> <<node.node.v[1]>> \o node.node.v[2]
      [] node.node.t = "Repeat" -> <<node.node.v>>
      [] OTHER -> <<>>

\* the span invariant on a node and on every node written in it
RECURSIVE SpansHold(_)
SpansHold(node) ==
    /\ Covers(node.pos)
    /\ \A k \in 1 .. Len(Parts(node)) :
          /\ Reaches(node.pos, Parts(node)[k].pos)
          /\ SpansHold(Parts(node)[k])

\* C31: for every token lex returns and every node parse returns, each of
\* the three ranges of its Position (offset, line, column) has end > start,
\* and a composite node, whose Position was extended by the nodes written in
\* it, has no end bound before theirs: extending moved no end bound backward.
C31_SpansCoverAndGrow ==
    /\ out.stage \in {"parse", "run"} =>
          \A k \in 1 .. Len(LineTokens) : Covers(LineTokens[k].pos)
    /\ out.stage = "run" => SpansHold(Front[out.text].node[1])

(* C32: drop removes the top value; copy pushes a second copy of the top   *)
(* value; swap exchanges the top two values; over turns a b into a b a.    *)
(* None of the four changes a value beneath its operands or the variable   *)
(* table, and a second swap restores the stack the first one found.        *)
C32_StackOpsTouchOnlyOperands ==
    out.stage = "run" =>
        \A i \in Events :
            LET e == Log[i]
            IN  /\ (IsOp(e, "drop") /\ Dispatched(e)) =>
                    /\ e.res = "Ok"
                    /\ e.post.stack = Beneath(e, 1)
                    /\ e.post.vars = e.pre.vars
                /\ (IsOp(e, "copy") /\ Dispatched(e)) =>
                    /\ e.res = "Ok"
                    /\ e.post.stack = Beneath(e, 1) \o <<Operand(e, 0), Operand(e, 0)>>
                    /\ e.post.vars = e.pre.vars
                /\ (IsOp(e, "swap") /\ Dispatched(e)) =>
                    /\ e.res = "Ok"
                    /\ e.post.stack = Beneath(e, 2) \o <<Operand(e, 0), Operand(e, 1)>>
                    /\ e.post.vars = e.pre.vars
                    /\ _swap(ProgramOf(e.post.stack, e.post.vars, macros)).stack
                           = e.pre.stack
                /\ (IsOp(e, "over") /\ Dispatched(e)) =>
                    /\ e.res = "Ok"
                    /\ e.post.stack = Beneath(e, 2)
                           \o <<Operand(e, 1), Operand(e, 0), Operand(e, 1)>>
                    /\ e.post.vars = e.pre.vars

C32_Witness ==
    \E i \in Events :
        /\ IsOp(Log[i], "over")
        /\ Len(Log[i].pre.stack) = 3
        /\ IsInt(Operand(Log[i], 1), 3)
        /\ IsFloat(Operand(Log[i], 0), Frac(5, 2))
        /\ Len(Log[i].post.stack) = 4
        /\ IsInt(Log[i].post.stack[4], 3)
        /\ "x" \in DOMAIN Log[i].post.vars

C32_WitnessSwap ==
    \E i \in Events :
        /\ IsOp(Log[i], "swap")
        /\ Len(Log[i].pre.stack) = 3
        /\ IsInt(Operand(Log[i], 1), 3)
        /\ IsFloat(Operand(Log[i], 0), Frac(5, 2))
        /\ IsInt(Log[i].post.stack[3], 3)

\* the text a value is shown as, for the values the stacks are drawn from
TextForm(value) ==
    CASE value.k = "Int" ->
             (IF value.v = 0 - 1 THEN "-1" ELSE IF value.v = 0 THEN "0"
              ELSE IF value.v = 1 THEN "1" ELSE IF value.v = 2 THEN "2"
              ELSE IF value.v = 3 THEN "3" ELSE "?")
      [] value.k = "Float" ->
             (IF value.v = Frac(5, 2) THEN "2.5"
              ELSE IF value.v = Frac(0 - 2, 1) THEN "-2" ELSE "?")
      [] value.k = "Boolean" -> (IF value.v THEN "true" ELSE "false")
      [] OTHER -> value.v

\* whether TextForm lists the value
Listed(value) ==
    CASE value.k = "Int" -> value.v \in (0 - 1) .. 3
      [] value.k = "Float" -> IsFloat(value, Frac(5, 2)) \/ IsFloat(value, Frac(0 - 2, 1))
      [] OTHER -> TRUE

\* the texts of the values, bottom to top, with sep between them
RECURSIVE Joined(_, _)
Joined(values, sep) ==
    IF Len(values) = 0 THEN ""
    ELSE IF Len(values) = 1 THEN TextForm(values[1])
    ELSE TextForm(values[1]) \o sep \o Joined(Tail(values), sep)

(* C33: join, run with a Char or String separator on top, leaves a stack   *)
(* of exactly one value: the String of the text forms of all the values    *)
(* that were beneath the separator, bottom to top, with the separator      *)
(* between consecutive values, and the empty String when nothing was       *)
(* beneath.                                                                *)
C33_JoinConsumesTheStack ==
    out.stage = "run" =>
        \A i \in Events :
            (IsOp(Log[i], "join") /\ Dispatched(Log[i])
                 /\ \A j \in 1 .. Len(Log[i].pre.stack) : Listed(Log[i].pre.stack[j])) =>
                /\ Log[i].res = "Ok"
                /\ Len(Log[i].post.stack) = 1
                /\ Log[i].post.stack[1].k = "String"
                /\ Log[i].post.stack[1].v
                       = Joined(Beneath(Log[i], 1), Operand(Log[i], 0).v)

C33_Witness ==
    \E i \in Events :
        /\ IsOp(Log[i], "join")
        /\ Len(Log[i].pre.stack) = 3
        /\ IsInt(Log[i].pre.stack[1], 3)
        /\ IsFloat(Log[i].pre.stack[2], Frac(0 - 2, 1))
        /\ Operand(Log[i], 0).k = "String"
        /\ Operand(Log[i], 0).v = "abc"
        /\ Len(Log[i].post.stack) = 1
        /\ Log[i].post.stack[1].k = "String"
        /\ Log[i].post.stack[1].v = "3abc-2"

C33_WitnessEmpty ==
    \E i \in Events :
        /\ IsOp(Log[i], "join")
        /\ Len(Log[i].pre.stack) = 1
        /\ Operand(Log[i], 0).k = "Char"
        /\ Len(Log[i].post.stack) = 1
        /\ Log[i].post.stack[1].k = "String"
        /\ Log[i].post.stack[1].v = ""

\* the stack `drop` and then the separator leave of the stack split left
Rejoin(e) ==
    _join(ProgramOf(Append(_drop(ProgramOf(e.post.stack, e.post.vars, macros)).stack,
                           Operand(e, 0)),
                    e.post.vars, macros)).stack

(* C34: on a stack that holds only a String s and, on top, a separator p   *)
(* (a Char or a non-empty String), split leaves the k >= 1 parts of s as   *)
(* Strings, bottom to top, and the Int k on top; when that count is        *)
(* dropped, join with the same separator leaves exactly the stack [s].     *)
C34_SplitThenJoin ==
    out.stage = "run" =>
        \A i \in Events :
            (IsOp(Log[i], "split") /\ Dispatched(Log[i])
                 /\ Len(Log[i].pre.stack) = 2 /\ Operand(Log[i], 0).v # "") =>
                LET post == Log[i].post.stack
                    k == Len(post) - 1
                IN  /\ Log[i].res = "Ok"
                    /\ k >= 1
                    /\ IsInt(post[k + 1], k)
                    /\ \A j \in 1 .. k : post[j].k = "String"
                    /\ Rejoin(Log[i]) = <<Operand(Log[i], 1)>>

C34_Witness ==
    \E i \in Events :
        /\ IsOp(Log[i], "split")
        /\ Len(Log[i].pre.stack) = 2
        /\ Operand(Log[i], 1).k = "String"
        /\ Operand(Log[i], 1).v = "aba"
        /\ Operand(Log[i], 0).k = "Char"
        /\ Operand(Log[i], 0).v = "a"
        /\ Len(Log[i].post.stack) = 4
        /\ Log[i].post.stack[1].v = ""
        /\ Log[i].post.stack[2].v = "b"
        /\ Log[i].post.stack[3].v = ""
        /\ IsInt(Log[i].post.stack[4], 3)
        /\ Rejoin(Log[i]) = <<Log[i].pre.stack[1]>>

\* the words of a line that open, divide and close a body
Keywords == {"If", "Else", "End", "Repeat"}

\* whether two instructions are the same word
SameInstr(a, b) == a.t = b.t /\ (a.t \in Keywords \/ a.v = b.v)

\* the instructions of the tokens, without the End tokens
RECURSIVE Words(_)
Words(tokens) ==
    IF tokens = <<>> THEN <<>>
    ELSE IF tokens[1].instr.t = "End" THEN Words(Tail(tokens))
    ELSE <<[t |-> tokens[1].instr.t, v |-> tokens[1].instr.v]>> \o Words(Tail(tokens))

\* the instructions a tree was made of, in the order it holds them
RECURSIVE Flat(_)
RECURSIVE FlatAll(_)
Flat(node) ==
    CASE node.node.t = "Chunk" -> FlatAll(node.node.v)
      [] node.node.t = "If" ->
            <<[t |-> "If", v |-> ""]>> \o Flat(node.node.v[1])
                \o (IF node.node.v[2] = <<>> THEN <<>>
                    ELSE <<[t |-> "Else", v |-> ""]>> \o Flat(node.node.v[2][1]))
      [] node.node.t = "Repeat" -> <<[t |-> "Repeat", v |-> ""]>> \o Flat(node.node.v)
      [] OTHER -> <<[t |-> node.node.t, v |-> node.node.v]>>

FlatAll(nodes) == IF nodes = <<>> THEN <<>> ELSE Flat(nodes[1]) \o FlatAll(Tail(nodes))

\* a body: never a Chunk of exactly one node
IsBody(node) == node.node.t = "Chunk" => Len(node.node.v) # 1

\* every body written in the node is a body, and a Chunk is found only as a body
RECURSIVE BodiesHold(_)
BodiesHold(node) ==
    /\ node.node.t \in {"If", "Repeat"} =>
           \A k \in 1 .. Len(Parts(node)) :
               IsBody(Parts(node)[k]) /\ BodiesHold(Parts(node)[k])
    /\ node.node.t = "Chunk" =>
           \A k \in 1 .. Len(node.node.v) :
               node.node.v[k].node.t # "Chunk" /\ BodiesHold(node.node.v[k])

(* C35: the body of an If branch or of a Repeat is the node itself when it *)
(* is exactly one node and otherwise a Chunk of its nodes in source order, *)
(* an empty Chunk for an empty body; an If has an else body only for an    *)
(* Else token; the root is always a Chunk, and its children are in token   *)
(* order.                                                                  *)
C35_BodiesAreWrappedByCount ==
    out.stage = "run" =>
        LET root == Front[out.text].node[1]
            words == Words(LineTokens)
            flat == Flat(root)
        IN  /\ root.node.t = "Chunk"
            /\ BodiesHold(root)
            /\ Len(flat) = Len(words)
            /\ \A k \in 1 .. Len(flat) : SameInstr(flat[k], words[k])

\* a body of two nodes is a Chunk of them, in order, beside other nodes of the root
C35_Witness ==
    /\ out.stage = "run"
    /\ out.text = "true if x 7 end 8"
    /\ LET root == Front[out.text].node[1]
       IN  /\ Len(root.node.v) = 3
           /\ root.node.v[2].node.t = "If"
           /\ root.node.v[2].node.v[2] = <<>>
           /\ root.node.v[2].node.v[1].node.t = "Chunk"
           /\ Len(root.node.v[2].node.v[1].node.v) = 2
           /\ root.node.v[2].node.v[1].node.v[1].node.t = "ID"
           /\ root.node.v[2].node.v[1].node.v[2].node.t = "Int"

\* a body of one node is that node
C35_WitnessOne ==
    /\ out.stage = "run"
    /\ out.text = "if 1 else 2 end"
    /\ LET root == Front[out.text].node[1]
       IN  /\ Len(root.node.v) = 1
           /\ root.node.v[1].node.t = "If"
           /\ root.node.v[1].node.v[1].node.t = "Int"
           /\ root.node.v[1].node.v[1].node.v = 1
           /\ Len(root.node.v[1].node.v[2]) = 1
           /\ root.node.v[1].node.v[2][1].node.t = "Int"
           /\ root.node.v[1].node.v[2][1].node.v = 2

\* empty bodies are empty Chunks
C35_WitnessEmpty ==
    /\ out.stage = "run"
    /\ out.text = "false if else end"
    /\ LET root == Front[out.text].node[1]
       IN  /\ Len(root.node.v) = 2
           /\ root.node.v[2].node.t = "If"
           /\ root.node.v[2].node.v[1].node.t = "Chunk"
           /\ root.node.v[2].node.v[1].node.v = <<>>
           /\ Len(root.node.v[2].node.v[2]) = 1
           /\ root.node.v[2].node.v[2][1].node.t = "Chunk"
           /\ root.node.v[2].node.v[2][1].node.v = <<>>

====
